---------------------------- MODULE Spec2Model ----------------------------
(***************************************************************************)
(* Model of the MCP tool handlers of azure-functions-mcp-managed-id:       *)
(* the predicate search (functions/mcpTriggers/course_search_mcp.py), the  *)
(* scan search (triggers/courses.py), and the list / survey / user lookup  *)
(* tools, each with its module-level lazily initialised Cosmos handle.     *)
(*                                                                         *)
(* Python values are tagged records: Str(s) with s a sequence of           *)
(* characters, IntV(n), NoneV, ListV (a non-empty list: truthy, neither a  *)
(* string nor a number).  A dict is a function from its keys to values.    *)
(* Scores are integers in units of 1/10000 (the code rounds to 4 places);  *)
(* minScore is an integer in units of 1/100000.                            *)
(***************************************************************************)
EXTENDS Integers, Sequences, FiniteSets, TLC

(***************************************************************************)
(* Characters and strings                                                  *)
(***************************************************************************)
SP == " "
FW == "FW"
TAB == "TAB"
NL == "NL"
COMMA == ","

Whitespace == {SP, FW, TAB, NL}

LowerChar(c) ==
  CASE c = "A" -> "a"
    [] c = "B" -> "b"
    [] c = "P" -> "p"
    [] OTHER -> c

Lower(s) == [i \in 1..Len(s) |-> LowerChar(s[i])]

RECURSIVE LStrip(_)
LStrip(s) ==
  IF s = <<>> THEN <<>>
  ELSE IF Head(s) \in Whitespace THEN LStrip(Tail(s)) ELSE s

RECURSIVE RStrip(_)
RStrip(s) ==
  IF s = <<>> THEN <<>>
  ELSE IF s[Len(s)] \in Whitespace THEN RStrip(SubSeq(s, 1, Len(s) - 1)) ELSE s

Strip(s) == RStrip(LStrip(s))

Replace(s, from, to) == [i \in 1..Len(s) |-> IF s[i] = from THEN to ELSE s[i]]

\* str.split(sep): the pieces between occurrences of sep, empty pieces kept
RECURSIVE SplitAcc(_, _, _)
SplitAcc(s, sep, cur) ==
  IF s = <<>> THEN <<cur>>
  ELSE IF Head(s) = sep THEN <<cur>> \o SplitAcc(Tail(s), sep, <<>>)
  ELSE SplitAcc(Tail(s), sep, Append(cur, Head(s)))

Split(s, sep) == SplitAcc(s, sep, <<>>)

NonEmptyOnly(parts) == SelectSeq(parts, LAMBDA p : p # <<>>)

\* a in b for Python strings
Contains(a, b) ==
  \E i \in 0..(Len(b) - Len(a)) : SubSeq(b, i + 1, i + Len(a)) = a

Min(x, y) == IF x <= y THEN x ELSE y
Max(x, y) == IF x >= y THEN x ELSE y

\* seq[:k] with Python's meaning of a negative k
PySlice(seq, k) ==
  IF k >= 0 THEN SubSeq(seq, 1, Min(k, Len(seq)))
  ELSE SubSeq(seq, 1, Max(Len(seq) + k, 0))

(***************************************************************************)
(* Python values                                                           *)
(***************************************************************************)
NoneV == [t |-> "none"]
Str(s) == [t |-> "str", s |-> s]
IntV(n) == [t |-> "int", n |-> n]
ListV == [t |-> "list"]
\* a float, in units of 1/100000
FloatV(u) == [t |-> "float", u |-> u]
FloatUnit == 10 * 10000

IsStr(v) == v.t = "str"

\* bool(v)
Truthy(v) ==
  CASE v.t = "none" -> FALSE
    [] v.t = "str" -> v.s # <<>>
    [] v.t = "int" -> v.n # 0
    [] v.t = "float" -> v.u # 0
    [] OTHER -> TRUE

\* a or b
PyOr(a, b) == IF Truthy(a) THEN a ELSE b

\* dict.get(k): None when the key is absent
Get(d, k) == IF k \in DOMAIN d THEN d[k] ELSE NoneV

EmptyDict == [k \in {} |-> NoneV]

Digits == {"0", "1", "2", "3"}
DigitVal(c) ==
  CASE c = "0" -> 0
    [] c = "1" -> 1
    [] c = "2" -> 2
    [] OTHER -> 3

RECURSIVE ParseDigits(_, _)
ParseDigits(s, acc) ==
  IF s = <<>> THEN acc ELSE ParseDigits(Tail(s), 10 * acc + DigitVal(Head(s)))

\* x truncated toward zero to a whole number of units
TruncDiv(x, unit) == IF x >= 0 THEN x \div unit ELSE -((-x) \div unit)

\* int(v): [ok, n] or the exception it raises
PyInt(v) ==
  CASE v.t = "int" -> [ok |-> TRUE, n |-> v.n]
    [] v.t = "float" -> [ok |-> TRUE, n |-> TruncDiv(v.u, FloatUnit)]
    [] v.t = "str" ->
         LET x == Strip(v.s) IN
         IF x # <<>> /\ \A i \in 1..Len(x) : x[i] \in Digits
         THEN [ok |-> TRUE, n |-> ParseDigits(x, 0)]
         ELSE [ok |-> FALSE, exc |-> "ValueError"]
    [] OTHER -> [ok |-> FALSE, exc |-> "TypeError"]

\* float(v): [ok, u] in units of 1/100000, or the exception it raises
PyFloat(v) ==
  CASE v.t = "float" -> [ok |-> TRUE, u |-> v.u]
    [] v.t = "int" -> [ok |-> TRUE, u |-> v.n * FloatUnit]
    [] v.t = "str" ->
         LET x == Strip(v.s) IN
         IF x # <<>> /\ \A i \in 1..Len(x) : x[i] \in Digits
         THEN [ok |-> TRUE, u |-> ParseDigits(x, 0) * FloatUnit]
         ELSE [ok |-> FALSE, exc |-> "ValueError"]
    [] OTHER -> [ok |-> FALSE, exc |-> "TypeError"]

(***************************************************************************)
(* _common.py                                                              *)
(***************************************************************************)
DictV(d) == [t |-> "dict", d |-> d]

\* the characters JSON texts are written with
QUOTE == "\""
LBRACE == "{"
RBRACE == "}"
COLON == ":"

\* the whitespace json.loads skips between tokens (not the full-width space)
JsonWs == {SP, TAB, NL}

RECURSIVE SkipWs(_)
SkipWs(s) == IF s # <<>> /\ Head(s) \in JsonWs THEN SkipWs(Tail(s)) ELSE s

\* the Python string made of the characters of s (a dict key)
RECURSIVE Concat(_)
Concat(s) == IF s = <<>> THEN "" ELSE Head(s) \o Concat(Tail(s))

JsonFail == [ok |-> FALSE, exc |-> "JSONDecodeError"]

\* the rest of a string literal after its opening quote: a raw control
\* character or the end of the text before the closing quote is an error
RECURSIVE JsonStringBody(_, _)
JsonStringBody(s, acc) ==
  IF s = <<>> \/ Head(s) \in {TAB, NL} THEN JsonFail
  ELSE IF Head(s) = QUOTE THEN [ok |-> TRUE, v |-> acc, rest |-> Tail(s)]
  ELSE JsonStringBody(Tail(s), Append(acc, Head(s)))

\* the longest run of digits s starts with
RECURSIVE DigitRun(_)
DigitRun(s) ==
  IF s # <<>> /\ Head(s) \in Digits THEN <<Head(s)>> \o DigitRun(Tail(s)) ELSE <<>>

\* a number literal: "0", or digits that do not start with 0
JsonNumber(s) ==
  LET run == IF Head(s) = "0" THEN <<"0">> ELSE DigitRun(s) IN
  [ok |-> TRUE, v |-> IntV(ParseDigits(run, 0)), rest |-> SubSeq(s, Len(run) + 1, Len(s))]

\* d with key k set to v (a repeated key keeps its last value)
DictWith(d, k, v) == [x \in DOMAIN d \cup {k} |-> IF x = k THEN v ELSE d[x]]

\* one JSON value at the start of s: an object, a string or a number (the
\* texts the model sends hold no array, literal name, sign, fraction or escape)
RECURSIVE JsonValue(_), JsonMembers(_, _)
JsonValue(s) ==
  LET t == SkipWs(s) IN
  IF t = <<>> THEN JsonFail
  ELSE IF Head(t) = LBRACE THEN
    (IF SkipWs(Tail(t)) # <<>> /\ Head(SkipWs(Tail(t))) = RBRACE
     THEN [ok |-> TRUE, v |-> DictV(EmptyDict), rest |-> Tail(SkipWs(Tail(t)))]
     ELSE JsonMembers(Tail(t), EmptyDict))
  ELSE IF Head(t) = QUOTE THEN
    (LET b == JsonStringBody(Tail(t), <<>>) IN
     IF b.ok THEN [ok |-> TRUE, v |-> Str(b.v), rest |-> b.rest] ELSE JsonFail)
  ELSE IF Head(t) \in Digits THEN JsonNumber(t)
  ELSE JsonFail

\* the members of an object after "{" or ",": "key" : value, then "," or "}"
JsonMembers(s, d) ==
  LET t == SkipWs(s) IN
  IF t = <<>> \/ Head(t) # QUOTE THEN JsonFail
  ELSE
  LET key == JsonStringBody(Tail(t), <<>>) IN
  IF ~key.ok THEN JsonFail
  ELSE
  LET u == SkipWs(key.rest) IN
  IF u = <<>> \/ Head(u) # COLON THEN JsonFail
  ELSE
  LET val == JsonValue(Tail(u)) IN
  IF ~val.ok THEN JsonFail
  ELSE
  LET w == SkipWs(val.rest)
      e == DictWith(d, Concat(key.v), val.v)
  IN
  IF w = <<>> THEN JsonFail
  ELSE IF Head(w) = COMMA THEN JsonMembers(Tail(w), e)
  ELSE IF Head(w) = RBRACE THEN [ok |-> TRUE, v |-> DictV(e), rest |-> Tail(w)]
  ELSE JsonFail

\* json.loads(s): the value of the whole text, or the error it raises
JsonLoads(s) ==
  LET r == JsonValue(s) IN
  IF r.ok /\ SkipWs(r.rest) = <<>> THEN [ok |-> TRUE, v |-> r.v] ELSE JsonFail

\* the dict inside a parsed payload: "arguments" first, then "mcpToolArgs"
Unwrap(parsed) ==
  IF parsed.t # "dict" THEN EmptyDict
  ELSE IF Get(parsed.d, "arguments").t = "dict" THEN Get(parsed.d, "arguments").d
  ELSE IF Get(parsed.d, "mcpToolArgs").t = "dict" THEN Get(parsed.d, "mcpToolArgs").d
  ELSE parsed.d

parse_args(context) ==
  IF context.t = "none" THEN EmptyDict
  ELSE IF context.t = "str" THEN
    LET txt == Strip(context.s) IN
    IF txt = <<>> THEN EmptyDict
    ELSE IF ~JsonLoads(txt).ok THEN [k \in {"raw"} |-> Str(txt)]
    ELSE Unwrap(JsonLoads(txt).v)
  ELSE Unwrap(context)

\* uuid4().hex is a fresh identifier: the model records that one is attached
TraceId == "uuid"

build_error(message, kind, extra) ==
  [k \in {"error", "type", "traceId"} \cup DOMAIN extra |->
     IF k \in DOMAIN extra THEN extra[k]
     ELSE IF k = "error" THEN message
     ELSE IF k = "type" THEN kind
     ELSE TraceId]

log_and_build_unhandled(exc, tool) ==
  build_error("internal error", "UnhandledException",
              [k \in {"tool", "details"} |-> IF k = "tool" THEN tool ELSE exc])

\* an exception that leaves the handler: there is no response map
Raised(exc) == [raised |-> exc]

IsError(r) == "error" \in DOMAIN r
IsRaised(r) == "raised" \in DOMAIN r
ErrorKind(r) == IF IsError(r) /\ "type" \in DOMAIN r THEN r.type ELSE "-"


(***************************************************************************)
(* State                                                                   *)
(***************************************************************************)
Modules == {"course_search", "course_list", "survey_query", "user_query", "courses"}

VARIABLES
  client,     \* module -> _client: 0 is None, n > 0 the n-th handle built there
  container,  \* module -> _container (_courses_container): 0 is None
  attempted,  \* module -> an initialisation has read the configuration before
  req,        \* the invocation being answered
  resp,       \* its response, Idle between invocations
  trace,      \* what that invocation did to the store and the handle
  last,       \* an earlier search kept for comparison with its repetition
  store,      \* container name -> the set of documents it holds
  threads     \* worker thread -> where its invocation stands (concurrent runs)

vars == <<client, container, attempted, req, resp, trace, last, store, threads>>

Idle == [idle |-> TRUE]

\* the worker threads that may run invocations of one module at a time
MaxThreads == 2
Threads == 1..MaxThreads

\* a thread that runs no invocation: `on` is the container handle its last
\* query was issued on (0: none yet), `out` what its invocation returned
Waiting == [at |-> "idle", env |-> "-", out |-> "-", on |-> 0]

NoThreads == [t \in Threads |-> Waiting]

\* no handle id grows beyond this (only a re-initialising variant gets there)
MaxHandles == 2

(***************************************************************************)
(* _init_cosmos / _init_client: the outcome of one call in module m.       *)
(* env is what the environment does if the configuration is read:          *)
(*   "unconfigured"   COSMOS_ENDPOINT or COSMOS_KEY is not set             *)
(*   "ctor_raises"    CosmosClient(...) raises                             *)
(*   "acquire_raises" get_database_client / get_container_client raises    *)
(*   "ok"             both handles are obtained                            *)
(***************************************************************************)
InitOutcomes == {"unconfigured", "ctor_raises", "acquire_raises", "ok"}

\* variant: the guard looks at the container instead of the client
InitGuardOnContainer(m) == container[m] # 0

\* if _client is not None: return
InitGuard(m) == client[m] # 0

\* what the environment can answer: nothing is read once the guard returns
InitEnvs(m) == IF InitGuard(m) THEN {"unread"} ELSE InitOutcomes

_init_cosmos(m, env) ==
  IF InitGuard(m)
  THEN [client |-> client[m], container |-> container[m], init |-> "cached"]
  ELSE IF env \in {"unconfigured", "ctor_raises"}
  THEN [client |-> client[m], container |-> container[m], init |-> env]
  ELSE IF env = "acquire_raises"
  THEN [client |-> client[m] + 1, container |-> container[m], init |-> env]
  ELSE [client |-> client[m] + 1, container |-> client[m] + 1, init |-> env]

NoInit(m) == [client |-> client[m], container |-> container[m], init |-> "skipped"]

\* the documents a loop "append; if len(items) >= cap: break" takes from docs
TakeUntil(docs, cap) == SubSeq(docs, 1, Min(Len(docs), Max(cap, 1)))

\* variant: the loop leaves only when there are more documents than the cap
BreakHitBeyond(docs, cap) == Len(docs) > Max(cap, 1)

\* does that loop leave by its break?
BreakHit(docs, cap) == Len(docs) >= Max(cap, 1)

\* or does it reach the end of the iterator (and so its error, if any)?
ReachesEnd(docs, cap) == ~BreakHit(docs, cap)

\* what query_items(query=..., parameters=...) hands to the store
Sent(query, params) == [query |-> query, params |-> params]

\* no query was issued
NoSent == [query |-> "-", params |-> <<>>]

\* no query was issued, so the store answered nothing
NoYield == [docs |-> <<>>, ends |-> "unasked"]

\* the container a module's handle points at (the default container names)
ContainerOf(m) ==
  CASE m \in {"course_search", "course_list", "courses"} -> "courses"
    [] m = "survey_query" -> "surveys"
    [] OTHER -> "users"

\* the container method the tools of a module call
CallOf(m) == IF m = "courses" THEN "read_all_items" ELSE "query_items"

\* variant: a read removes the documents it hands out
StoreAfterTaking(call, contents, taken) == contents \ {taken[i] : i \in 1..Len(taken)}

\* the contents of a container after a call on it that handed out `taken`:
\* query_items and read_all_items read, delete_item removes, any other
\* method (upsert_item, create_item, replace_item) writes
StoreAfter(call, contents, taken) ==
  CASE call \in {"query_items", "read_all_items"} -> contents
    [] call = "delete_item" -> contents \ {taken[i] : i \in 1..Len(taken)}
    [] OTHER -> contents \cup {taken[i] : i \in 1..Len(taken)}

\* the handler returns r: the module's handle becomes h, the request and what
\* the invocation did are recorded (y is what the store answered, consumed
\* the number of documents the handler took from it, ended how its loop over
\* the iterator ended: "break", or the iterator's own end "none", "cosmos",
\* "other")
Answer(m, tool, context, h, r, queries, sent, y, consumed, ended) ==
  /\ h.client <= MaxHandles
  /\ client' = [client EXCEPT ![m] = h.client]
  /\ container' = [container EXCEPT ![m] = h.container]
  /\ attempted' = [attempted EXCEPT ![m] = @ \/ h.init \in InitOutcomes]
  /\ req' = [tool |-> tool, mod |-> m, context |-> context]
  /\ resp' = r
  /\ trace' = [init |-> h.init, queries |-> queries, consumed |-> consumed,
               sent |-> sent, yield |-> y, ended |-> ended,
               handle |-> IF queries > 0 THEN h.container ELSE 0,
               clientBefore |-> client[m], containerBefore |-> container[m],
               attemptedBefore |-> attempted[m]]
  /\ store' = IF queries = 0 THEN store
              ELSE [store EXCEPT ![ContainerOf(m)] =
                      StoreAfter(CallOf(m), @, SubSeq(y.docs, 1, consumed))]
  /\ UNCHANGED <<last, threads>>

\* a return on a path that issued `queries` queries whose answer is not kept
Finish(m, tool, context, h, r, queries, consumed) ==
  Answer(m, tool, context, h, r, queries, NoSent, NoYield, consumed, "unasked")

\* a return after the one query of the invocation, which sent the query text
\* and parameter values `sent`, which the store answered y and whose loop is
\* "append; if len(items) >= cap: break"
Queried(m, tool, context, h, r, sent, y, cap) ==
  Answer(m, tool, context, h, r, 1, sent, y, Len(TakeUntil(y.docs, cap)),
         IF BreakHit(y.docs, cap) THEN "break" ELSE y.ends)

\* the caller takes the response; the process waits for the next invocation
Deliver ==
  /\ resp # Idle
  /\ req' = Idle
  /\ resp' = Idle
  /\ trace' = Idle
  /\ UNCHANGED <<client, container, attempted, last, store, threads>>

(***************************************************************************)
(* Concurrent invocations of the predicate search: each worker thread runs *)
(* _search_field with a valid query, and the statements of _init_cosmos    *)
(* and of the handler that read or assign the module globals are separate  *)
(* steps, which the threads interleave freely (nothing locks them).        *)
(***************************************************************************)
ConcurrentModule == "course_search"

\* thread t moves on, the other threads and the responses stay
Step(t, rec) ==
  /\ threads' = [threads EXCEPT ![t] = rec]
  /\ UNCHANGED <<attempted, req, resp, trace, last, store>>

\* the handler is invoked, accepts its arguments and calls _init_cosmos()
Enter(t) ==
  /\ threads[t].at = "idle"
  /\ Step(t, [threads[t] EXCEPT !.at = "guard", !.env = "-", !.out = "-"])
  /\ UNCHANGED <<client, container>>

\* if _client is not None: return
GuardStep(t) ==
  /\ threads[t].at = "guard"
  /\ Step(t, [threads[t] EXCEPT !.at = IF InitGuard(ConcurrentModule) THEN "check" ELSE "config"])
  /\ UNCHANGED <<client, container>>

\* the configuration is read: without endpoint or key the function returns
ReadConfig(t) ==
  /\ threads[t].at = "config"
  /\ \E env \in InitOutcomes :
       Step(t, [threads[t] EXCEPT !.at = IF env = "unconfigured" THEN "check" ELSE "construct",
                                  !.env = env])
  /\ UNCHANGED <<client, container>>

\* _client = CosmosClient(endpoint, credential=key): a new client, or a raise
Construct(t) ==
  /\ threads[t].at = "construct"
  /\ IF threads[t].env = "ctor_raises"
     THEN /\ Step(t, [threads[t] EXCEPT !.at = "check"])
          /\ UNCHANGED <<client, container>>
     ELSE /\ client[ConcurrentModule] < MaxThreads
          /\ client' = [client EXCEPT ![ConcurrentModule] = @ + 1]
          /\ Step(t, [threads[t] EXCEPT !.at = "acquire"])
          /\ UNCHANGED container

\* db = _client.get_database_client(...);
\* _container = db.get_container_client(...): the handle of the client the
\* global holds at that moment, or a raise
Acquire(t) ==
  /\ threads[t].at = "acquire"
  /\ IF threads[t].env = "acquire_raises"
     THEN /\ Step(t, [threads[t] EXCEPT !.at = "check"])
          /\ UNCHANGED <<client, container>>
     ELSE /\ container' = [container EXCEPT ![ConcurrentModule] = client[ConcurrentModule]]
          /\ Step(t, [threads[t] EXCEPT !.at = "check"])
          /\ UNCHANGED client

\* if _container is None: return build_error(..., kind="DependencyNotReady")
CheckContainer(t) ==
  /\ threads[t].at = "check"
  /\ IF container[ConcurrentModule] = 0
     THEN Step(t, [threads[t] EXCEPT !.at = "done", !.out = "DependencyNotReady"])
     ELSE Step(t, [threads[t] EXCEPT !.at = "query"])
  /\ UNCHANGED <<client, container>>

\* _container.query_items(...): the query goes to the handle the global holds
IssueQuery(t) ==
  /\ threads[t].at = "query"
  /\ Step(t, [threads[t] EXCEPT !.at = "done", !.out = "results", !.on = container[ConcurrentModule]])
  /\ UNCHANGED <<client, container>>

\* the invocation returns; the thread is free for the next one
Return(t) ==
  /\ threads[t].at = "done"
  /\ Step(t, [threads[t] EXCEPT !.at = "idle"])
  /\ UNCHANGED <<client, container>>

NextConcurrent ==
  \E t \in Threads :
    \/ Enter(t)
    \/ GuardStep(t)
    \/ ReadConfig(t)
    \/ Construct(t)
    \/ Acquire(t)
    \/ CheckContainer(t)
    \/ IssueQuery(t)
    \/ Return(t)

(***************************************************************************)
(* The store's answer to one query: the documents the iterator yields, in  *)
(* order, and how it ends: "none" (exhausted), "cosmos" (raises            *)
(* CosmosHttpResponseError after them) or "other" (raises another error).  *)
(***************************************************************************)
IterEnds == {"none", "cosmos", "other"}

\* sequences of distinct elements of S
RECURSIVE Arrangements(_)
Arrangements(S) ==
  {<<>>} \cup UNION {{<<x>> \o rest : rest \in Arrangements(S \ {x})} : x \in S}


(***************************************************************************)
(* Ranking helpers shared by the two search strategies                     *)
(***************************************************************************)
SnippetLen == 120
Ellipsis == <<".", ".", ".">>

\* variant: the value is cut and no ellipsis is appended
SnippetCutOnly(val) == SubSeq(val, 1, Min(SnippetLen, Len(val)))

\* val[:120] + ("..." if len(val) > 120 else "")
Snippet(val) ==
  SubSeq(val, 1, Min(SnippetLen, Len(val))) \o (IF Len(val) > SnippetLen THEN Ellipsis ELSE <<>>)

\* round(num/den, 4) in units of 1/10000, num >= 0, den > 0
Round4(num, den) == (20000 * num + den) \div (2 * den)

\* where x goes in a list already sorted by score descending: behind every
\* element whose score is at least its own (the sort is stable)
RECURSIVE InsertDesc(_, _)
InsertDesc(sorted, x) ==
  IF sorted = <<>> THEN <<x>>
  ELSE IF Head(sorted).score >= x.score THEN <<Head(sorted)>> \o InsertDesc(Tail(sorted), x)
  ELSE <<x>> \o sorted

\* variant: an element is placed before the elements of equal score
RECURSIVE InsertBeforeTies(_, _)
InsertBeforeTies(sorted, x) ==
  IF sorted = <<>> THEN <<x>>
  ELSE IF Head(sorted).score > x.score THEN <<Head(sorted)>> \o InsertBeforeTies(Tail(sorted), x)
  ELSE <<x>> \o sorted

\* variant: a descending sort that reverses the elements of equal score
RECURSIVE SortByScoreDescTiesReversed(_)
SortByScoreDescTiesReversed(rs) ==
  IF rs = <<>> THEN <<>>
  ELSE InsertBeforeTies(SortByScoreDescTiesReversed(SubSeq(rs, 1, Len(rs) - 1)), rs[Len(rs)])

\* list.sort(key=lambda x: x["score"], reverse=True)
RECURSIVE SortByScoreDesc(_)
SortByScoreDesc(rs) ==
  IF rs = <<>> THEN <<>>
  ELSE InsertDesc(SortByScoreDesc(SubSeq(rs, 1, Len(rs) - 1)), rs[Len(rs)])

(***************************************************************************)
(* functions/mcpTriggers/course_search_mcp.py                              *)
(***************************************************************************)
Fields == {"courseName", "description", "targetCompany"}

_tokenize(term) ==
  IF term = <<>> THEN <<>> ELSE NonEmptyOnly(Split(Replace(term, FW, SP), SP))

\* str(i) for i >= 0
DecimalDigits == <<"0", "1", "2", "3", "4", "5", "6", "7", "8", "9">>

RECURSIVE Decimal(_)
Decimal(i) ==
  IF i < 10 THEN <<DecimalDigits[i + 1]>>
  ELSE Decimal(i \div 10) \o <<DecimalDigits[(i % 10) + 1]>>

\* f"@t{i}"
ParamName(i) == <<"@t">> \o Decimal(i)

\* variant: the token values are written into the query text
BuildQueryInlined(field, tokens) ==
  [text |-> "CONTAINS_LOWER_AND", field |-> field, operands |-> tokens]

\* variant: the query text names the same field whatever is searched
BuildQueryOneField(field, tokens) ==
  [text |-> "CONTAINS_LOWER_AND", field |-> "courseName",
   operands |-> [i \in 1..Len(tokens) |-> ParamName(i - 1)]]

\* the query text: its fixed words, the field and what each CONTAINS is
\* compared with, the parameter names @t0, @t1, ...
_build_query(field, tokens) ==
  IF tokens = <<>> THEN [text |-> "IS_DEFINED", field |-> field, operands |-> <<>>]
  ELSE [text |-> "CONTAINS_LOWER_AND", field |-> field,
        operands |-> [i \in 1..Len(tokens) |-> ParamName(i - 1)]]

AllTokensIn(tokens, lv) == \A i \in 1..Len(tokens) : Contains(tokens[i], lv)

\* variant: the length ratio is not capped at 1.0
FieldScoreUncapped(term, tokens, val) ==
  LET lv == Lower(val)
      hits == Cardinality({i \in 1..Len(tokens) : Contains(tokens[i], lv)})
      nt == Max(Len(tokens), 1)
      lenv == Max(Len(val), 1)
  IN  Round4(7 * hits * lenv + 3 * nt * Len(term), 10 * nt * lenv)

\* variant: coverage and length bonus weigh the same
FieldScoreEqualWeights(term, tokens, val) ==
  LET lv == Lower(val)
      hits == Cardinality({i \in 1..Len(tokens) : Contains(tokens[i], lv)})
      nt == Max(Len(tokens), 1)
      lenv == Max(Len(val), 1)
      bonus == Min(Len(term), lenv)
  IN  Round4(5 * hits * lenv + 5 * nt * bonus, 10 * nt * lenv)

\* the score of one candidate, in units of 1/10000:
\* round((hits / max(len(tokens), 1)) * 0.7 + min(len(term) / max(len(val), 1), 1.0) * 0.3, 4)
FieldScore(term, tokens, val) ==
  LET lv == Lower(val)
      hits == Cardinality({i \in 1..Len(tokens) : Contains(tokens[i], lv)})
      nt == Max(Len(tokens), 1)
      lenv == Max(Len(val), 1)
      bonus == Min(Len(term), lenv)
  IN  Round4(7 * hits * lenv + 3 * nt * bonus, 10 * nt * lenv)

\* variant: the candidates the store sends are trusted to match
SearchKeepsAnyString(field, tokens, d) == IsStr(Get(d, field))

SearchKeeps(field, tokens, d) ==
  /\ IsStr(Get(d, field))
  /\ AllTokensIn(tokens, Lower(Get(d, field).s))

SearchResult(field, term, tokens, d) ==
  [id |-> Get(d, "id"), score |-> FieldScore(term, tokens, Get(d, field).s),
   fieldValue |-> Get(d, field).s, snippet |-> Snippet(Get(d, field).s), doc |-> d]

SearchCandidates(field, term, tokens, items) ==
  LET kept == SelectSeq(items, LAMBDA d : SearchKeeps(field, tokens, d))
  IN  [i \in 1..Len(kept) |-> SearchResult(field, term, tokens, kept[i])]

SearchTrim(results, top_k) == PySlice(results, top_k)

SearchPayload(field, term, tokens, top_k, items) ==
  LET trimmed == SearchTrim(SortByScoreDesc(SearchCandidates(field, term, tokens, items)), top_k)
  IN  [query |-> term, field |-> field, tokens |-> tokens,
       cosmosQuery |-> _build_query(field, tokens), matched |-> Len(trimmed),
       topK |-> top_k, results |-> trimmed]

SearchTerm(args) == PyOr(PyOr(Get(args, "searchTerm"), Get(args, "raw")), Str(<<>>))

\* variant: the term is taken as sent, without .strip()
SearchTermTextUnstripped(termv) == termv.s

\* (... or "").strip()
SearchTermText(termv) == Strip(termv.s)

SearchTopK(args) == PyInt(PyOr(Get(args, "topK"), IntV(5)))

\* search_courses_by_name_mcp / _by_description_mcp / _by_company_mcp
SearchTool(field) ==
  CASE field = "courseName" -> "search_courses_by_name_mcp"
    [] field = "description" -> "search_courses_by_description_mcp"
    [] OTHER -> "search_courses_by_company_mcp"

\* _search_field(field, context); Yields is what the store may answer
_search_field(field, context, Yields) ==
  LET m == "course_search"
      tool == SearchTool(field)
      args == parse_args(context)
      termv == SearchTerm(args)
  IN
  IF ~IsStr(termv)
  THEN Finish(m, tool, context, NoInit(m), Raised("AttributeError"), 0, 0)
  ELSE
  LET term == SearchTermText(termv) IN
  IF term = <<>>
  THEN Finish(m, tool, context, NoInit(m),
              build_error("searchTerm required", "ValidationError",
                          [k \in {"field"} |-> "searchTerm"]), 0, 0)
  ELSE
  LET k == SearchTopK(args) IN
  IF ~k.ok
  THEN Finish(m, tool, context, NoInit(m), Raised(k.exc), 0, 0)
  ELSE
  LET top_k == k.n
      tokens == _tokenize(Lower(term))
  IN
  \E env \in InitEnvs(m) :
    LET h == _init_cosmos(m, env) IN
    IF h.container = 0
    THEN Finish(m, tool, context, h,
                build_error("container not initialised", "DependencyNotReady", EmptyDict), 0, 0)
    ELSE
    \E y \in Yields :
      LET items == TakeUntil(y.docs, top_k * 3)
          query == _build_query(field, tokens)
      IN
      IF ReachesEnd(y.docs, top_k * 3) /\ y.ends = "cosmos"
      THEN Queried(m, tool, context, h,
                  build_error("query failed", "CosmosQueryError",
                              [x \in {"query", "details"} |-> IF x = "query" THEN query ELSE "cosmos"]),
                  Sent(query, tokens), y, top_k * 3)
      ELSE IF ReachesEnd(y.docs, top_k * 3) /\ y.ends = "other"
      THEN Queried(m, tool, context, h,
                  log_and_build_unhandled("other", <<"search_", field>>), Sent(query, tokens), y, top_k * 3)
      ELSE Queried(m, tool, context, h,
                  SearchPayload(field, term, tokens, top_k, items), Sent(query, tokens), y, top_k * 3)


(***************************************************************************)
(* triggers/courses.py: the scan strategy                                  *)
(***************************************************************************)
\* difflib.SequenceMatcher(None, a, b): the common blocks <<i, j, k>> with
\* a[i..i+k-1] = b[j..j+k-1] (strings here are far below the 200 characters
\* at which difflib starts to treat popular characters as junk)
CommonBlocks(a, b) ==
  {t \in (1..Len(a)) \X (1..Len(b)) \X (1..Min(Len(a), Len(b))) :
     /\ t[1] + t[3] - 1 <= Len(a)
     /\ t[2] + t[3] - 1 <= Len(b)
     /\ SubSeq(a, t[1], t[1] + t[3] - 1) = SubSeq(b, t[2], t[2] + t[3] - 1)}

\* find_longest_match: the longest block, of those the one earliest in a, of
\* those the one earliest in b
Precedes(t, u) ==
  \/ t[3] > u[3]
  \/ t[3] = u[3] /\ t[1] < u[1]
  \/ t[3] = u[3] /\ t[1] = u[1] /\ t[2] <= u[2]

LongestMatch(bs) == CHOOSE t \in bs : \A u \in bs : Precedes(t, u)

\* get_matching_blocks: the characters matched, left and right of the longest block
RECURSIVE MatchedChars(_, _)
MatchedAround(a, b, t) ==
  t[3] + MatchedChars(SubSeq(a, 1, t[1] - 1), SubSeq(b, 1, t[2] - 1))
       + MatchedChars(SubSeq(a, t[1] + t[3], Len(a)), SubSeq(b, t[2] + t[3], Len(b)))

MatchedIn(a, b, bs) == IF bs = {} THEN 0 ELSE MatchedAround(a, b, LongestMatch(bs))

MatchedChars(a, b) == MatchedIn(a, b, CommonBlocks(a, b))

\* variant: the similarity ratio alone, without the substring rule
ScoreRatioOnly(a, b) ==
  IF a = <<>> \/ b = <<>> THEN [num |-> 0, den |-> 1]
  ELSE [num |-> 2 * MatchedChars(a, b), den |-> Len(a) + Len(b)]

\* _score(a, b) as the fraction num/den
_score(a, b) ==
  IF a = <<>> \/ b = <<>> THEN [num |-> 0, den |-> 1]
  ELSE IF Contains(a, b) THEN [num |-> 1, den |-> 1]
  ELSE [num |-> 2 * MatchedChars(a, b), den |-> Len(a) + Len(b)]

\* variant: no threshold is applied
PassesAnyScore(s, min_score) == TRUE

\* s >= min_score
PassesMinScore(s, min_score) == s.num * FloatUnit >= min_score * s.den

_init_client(m, env) == _init_cosmos(m, env)

\* variant: a container obtained in this very call yields nothing yet
FetchNothingFromNewContainer(y, max_items) ==
  IF container["courses"] = 0 THEN <<>> ELSE TakeUntil(y.docs, max_items)

\* _fetch_courses(max_items) on what the store yields: an error of the
\* iterator is logged and the documents read so far are kept
_fetch_courses(y, max_items) == TakeUntil(y.docs, max_items)

FuzzyKeeps(field, term_norm, min_score, d) ==
  /\ IsStr(Get(d, field))
  /\ PassesMinScore(_score(term_norm, Lower(Get(d, field).s)), min_score)

FuzzyResult(field, term_norm, d) ==
  LET s == _score(term_norm, Lower(Get(d, field).s)) IN
  [id |-> Get(d, "id"), score |-> Round4(s.num, s.den),
   snippet |-> Snippet(Get(d, field).s), fieldValue |-> Get(d, field).s, doc |-> d]

FuzzyScored(field, term_norm, min_score, docs) ==
  LET kept == SelectSeq(docs, LAMBDA d : FuzzyKeeps(field, term_norm, min_score, d))
  IN  [i \in 1..Len(kept) |-> FuzzyResult(field, term_norm, kept[i])]

FuzzyTrim(scored, top_k) == PySlice(scored, top_k)

_fuzzy_search(field, term, top_k, max_scan, min_score, docs) ==
  LET term_norm == Lower(Strip(term))
      scored == SortByScoreDesc(FuzzyScored(field, term_norm, min_score, docs))
  IN  [query |-> term, field |-> field, topK |-> top_k, maxScan |-> max_scan,
       minScore |-> min_score, matched |-> Len(FuzzyTrim(scored, top_k)),
       results |-> FuzzyTrim(scored, top_k)]

\* the registered tools search_courses_by_name / _by_description / _by_company
ScanTool(field) ==
  CASE field = "courseName" -> "search_courses_by_name"
    [] field = "description" -> "search_courses_by_description"
    [] OTHER -> "search_courses_by_company"

\* _handler's own argument parsing: a string must be JSON
HandlerArgs(context) ==
  IF context.t = "str"
  THEN IF JsonLoads(context.s).ok
       THEN [ok |-> TRUE, args |-> Unwrap(JsonLoads(context.s).v)]
       ELSE [ok |-> FALSE]
  ELSE [ok |-> TRUE, args |-> Unwrap(context)]

ScanTopK(args) == PyInt(PyOr(Get(args, "topK"), IntV(5)))
ScanMaxScan(args) == PyInt(PyOr(Get(args, "maxScan"), IntV(200)))
ScanMinScore(args) == PyFloat(PyOr(Get(args, "minScore"), FloatV(40000)))

\* _handler(context) of _register_search_trigger(spec) with spec.field = field
_handler(field, context, Yields) ==
  LET m == "courses"
      tool == ScanTool(field)
      parsed == HandlerArgs(context)
  IN
  IF ~parsed.ok
  THEN Finish(m, tool, context, NoInit(m),
              [error |-> "input parse failed", details |-> "JSONDecodeError"], 0, 0)
  ELSE
  LET args == parsed.args
      termv == PyOr(Get(args, "searchTerm"), Str(<<>>))
  IN
  IF ~IsStr(termv)
  THEN Finish(m, tool, context, NoInit(m), Raised("AttributeError"), 0, 0)
  ELSE
  LET term == Strip(termv.s) IN
  IF term = <<>>
  THEN Finish(m, tool, context, NoInit(m), [error |-> "searchTerm required"], 0, 0)
  ELSE
  LET k == ScanTopK(args)
      ms == ScanMaxScan(args)
      mn == ScanMinScore(args)
  IN
  IF ~k.ok THEN Finish(m, tool, context, NoInit(m), Raised(k.exc), 0, 0)
  ELSE IF ~ms.ok THEN Finish(m, tool, context, NoInit(m), Raised(ms.exc), 0, 0)
  ELSE IF ~mn.ok THEN Finish(m, tool, context, NoInit(m), Raised(mn.exc), 0, 0)
  ELSE
  \E env \in InitEnvs(m) :
    LET h == _init_client(m, env) IN
    IF h.container = 0
    THEN Finish(m, tool, context, h,
                _fuzzy_search(field, term, k.n, ms.n, mn.u, <<>>), 0, 0)
    ELSE
    \E y \in Yields :
      Queried(m, tool, context, h,
             _fuzzy_search(field, term, k.n, ms.n, mn.u, _fetch_courses(y, ms.n)),
             Sent("READ_ALL_ITEMS", <<>>), y, ms.n)


(***************************************************************************)
(* functions/mcpTriggers/course_list_mcp.py                                *)
(***************************************************************************)
ListCap == 1000

NotReady == build_error("container not initialised", "DependencyNotReady", EmptyDict)

QueryFailed(extra) == build_error("query failed", "CosmosQueryError", extra)

list_all_courses_mcp(context, Yields) ==
  LET m == "course_list"
      tool == "list_all_courses_mcp"
  IN
  \E env \in InitEnvs(m) :
    LET h == _init_cosmos(m, env) IN
    IF h.container = 0 THEN Finish(m, tool, context, h, NotReady, 0, 0)
    ELSE
    \E y \in Yields :
      LET items == TakeUntil(y.docs, ListCap) IN
      IF ReachesEnd(y.docs, ListCap) /\ y.ends = "cosmos"
      THEN Queried(m, tool, context, h,
                  QueryFailed([k \in {"query", "details"} |-> IF k = "query" THEN "SELECT_ALL" ELSE "cosmos"]),
                  Sent("SELECT_ALL", <<>>), y, ListCap)
      ELSE IF ReachesEnd(y.docs, ListCap) /\ y.ends = "other"
      THEN Queried(m, tool, context, h,
                  log_and_build_unhandled("other", "list_all_courses"), Sent("SELECT_ALL", <<>>), y, ListCap)
      ELSE Queried(m, tool, context, h,
                  [query |-> "SELECT_ALL", count |-> Len(items),
                   truncated |-> BreakHit(y.docs, ListCap), results |-> items],
                  Sent("SELECT_ALL", <<>>), y, ListCap)

(***************************************************************************)
(* functions/mcpTriggers/survey_query_mcp.py                               *)
(***************************************************************************)
SurveyBuildQuery(by_course) == IF by_course THEN "BY_COURSE_ID" ELSE "BY_USER_ID"

SurveyHint(extra) ==
  [k \in {"mode", "id", "query", "count", "results", "info", "usageExamples"} \cup DOMAIN extra |->
     IF k \in DOMAIN extra THEN extra[k]
     ELSE IF k = "count" THEN 0
     ELSE IF k = "results" THEN <<>>
     ELSE IF k \in {"info", "usageExamples"} THEN "usage"
     ELSE NoneV]

SurveyTopK(args) == PyInt(PyOr(Get(args, "topK"), IntV(20)))

query_surveys_mcp(context, Yields) ==
  LET m == "survey_query"
      tool == "query_surveys_mcp"
      args == parse_args(context)
      cv == PyOr(Get(args, "courseId"), Str(<<>>))
      uv == PyOr(Get(args, "userId"), Str(<<>>))
  IN
  IF ~IsStr(cv) \/ ~IsStr(uv)
  THEN Finish(m, tool, context, NoInit(m), Raised("AttributeError"), 0, 0)
  ELSE
  LET course_id == Strip(cv.s)
      user_id == Strip(uv.s)
      k == SurveyTopK(args)
  IN
  IF ~k.ok THEN Finish(m, tool, context, NoInit(m), Raised(k.exc), 0, 0)
  ELSE IF course_id = <<>> /\ user_id = <<>> /\ Truthy(Get(args, "raw"))
  THEN Finish(m, tool, context, NoInit(m),
              SurveyHint([x \in {"raw"} |-> Get(args, "raw")]), 0, 0)
  ELSE IF course_id # <<>> /\ user_id # <<>>
  THEN Finish(m, tool, context, NoInit(m),
              build_error("courseId and userId together", "ValidationError", EmptyDict), 0, 0)
  ELSE IF course_id = <<>> /\ user_id = <<>>
  THEN Finish(m, tool, context, NoInit(m), SurveyHint(EmptyDict), 0, 0)
  ELSE
  LET by_course == course_id # <<>>
      target_id == IF course_id # <<>> THEN course_id ELSE user_id
      query == SurveyBuildQuery(by_course)
  IN
  \E env \in InitEnvs(m) :
    LET h == _init_cosmos(m, env) IN
    IF h.container = 0 THEN Finish(m, tool, context, h, NotReady, 0, 0)
    ELSE
    \E y \in Yields :
      LET items == TakeUntil(y.docs, k.n) IN
      IF ReachesEnd(y.docs, k.n) /\ y.ends = "cosmos"
      THEN Queried(m, tool, context, h,
                  QueryFailed([x \in {"query", "details", "id"} |->
                                 IF x = "query" THEN query ELSE IF x = "id" THEN target_id ELSE "cosmos"]),
                  Sent(query, <<target_id>>), y, k.n)
      ELSE IF ReachesEnd(y.docs, k.n) /\ y.ends = "other"
      THEN Queried(m, tool, context, h,
                  log_and_build_unhandled("other", "query_surveys"), Sent(query, <<target_id>>), y, k.n)
      ELSE Queried(m, tool, context, h,
                  [mode |-> IF by_course THEN "courseId" ELSE "userId", id |-> target_id,
                   query |-> query, count |-> Len(items), results |-> items],
                  Sent(query, <<target_id>>), y, k.n)

(***************************************************************************)
(* functions/mcpTriggers/user_query_mcp.py                                 *)
(***************************************************************************)
StripEach(parts) == [i \in 1..Len(parts) |-> Strip(parts[i])]

\* variant: the empty parts are kept
NormalizeIdsKeepingEmpties(raw) ==
  IF ~IsStr(raw) THEN <<>>
  ELSE IF Strip(raw.s) = <<>> THEN <<>>
  ELSE StripEach(Split(Replace(Strip(raw.s), NL, COMMA), COMMA))

_normalize_ids(raw) ==
  IF ~IsStr(raw) THEN <<>>
  ELSE IF Strip(raw.s) = <<>> THEN <<>>
  ELSE NonEmptyOnly(StripEach(Split(Replace(Strip(raw.s), NL, COMMA), COMMA)))

UsersHint(example) ==
  [query |-> NoneV, count |-> 0, results |-> <<>>, info |-> "usage", usageExample |-> example]

\* found_ids = {d.get("id") for d in items}
FoundIds(items) == {Get(items[i], "id") : i \in 1..Len(items)}

\* variant: the test is inverted and the ids that were found are listed
MissingIdsInverted(ids, items) == SelectSeq(ids, LAMBDA i : Str(i) \in FoundIds(items))

\* missing = [i for i in ids if i not in found_ids]
MissingIds(ids, items) == SelectSeq(ids, LAMBDA i : Str(i) \notin FoundIds(items))

get_users_by_ids_mcp(context, Yields) ==
  LET m == "user_query"
      tool == "get_users_by_ids_mcp"
      args == parse_args(context)
      ids == _normalize_ids(Get(args, "userIds"))
  IN
  IF ids = <<>> THEN Finish(m, tool, context, NoInit(m), UsersHint("userIds"), 0, 0)
  ELSE
  \E env \in InitEnvs(m) :
    LET h == _init_cosmos(m, env) IN
    IF h.container = 0 THEN Finish(m, tool, context, h, NotReady, 0, 0)
    ELSE
    \E y \in Yields :
      LET items == TakeUntil(y.docs, Len(ids)) IN
      IF ReachesEnd(y.docs, Len(ids)) /\ y.ends = "cosmos"
      THEN Queried(m, tool, context, h,
                  QueryFailed([x \in {"query", "details", "ids"} |->
                                 IF x = "query" THEN "ARRAY_CONTAINS_IDS"
                                 ELSE IF x = "ids" THEN PySlice(ids, 10) ELSE "cosmos"]),
                  Sent("ARRAY_CONTAINS_IDS", <<ids>>), y, Len(ids))
      ELSE IF ReachesEnd(y.docs, Len(ids)) /\ y.ends = "other"
      THEN Queried(m, tool, context, h,
                  log_and_build_unhandled("other", "get_users_by_ids"), Sent("ARRAY_CONTAINS_IDS", <<ids>>), y, Len(ids))
      ELSE Queried(m, tool, context, h,
                  [query |-> "ARRAY_CONTAINS_IDS", requested |-> Len(ids), count |-> Len(items),
                   missingIds |-> MissingIds(ids, items), results |-> items],
                  Sent("ARRAY_CONTAINS_IDS", <<ids>>), y, Len(ids))

CompanyTopK(args) == PyInt(PyOr(Get(args, "topK"), IntV(200)))

get_users_by_company_mcp(context, Yields) ==
  LET m == "user_query"
      tool == "get_users_by_company_mcp"
      args == parse_args(context)
      cv == PyOr(Get(args, "companyName"), Str(<<>>))
      k == CompanyTopK(args)
  IN
  IF ~IsStr(cv)
  THEN Finish(m, tool, context, NoInit(m),
              log_and_build_unhandled("AttributeError", "get_users_by_company"), 0, 0)
  ELSE IF ~k.ok
  THEN Finish(m, tool, context, NoInit(m),
              log_and_build_unhandled(k.exc, "get_users_by_company"), 0, 0)
  ELSE IF Strip(cv.s) = <<>>
  THEN Finish(m, tool, context, NoInit(m), UsersHint("companyName"), 0, 0)
  ELSE
  \E env \in InitEnvs(m) :
    LET h == _init_cosmos(m, env) IN
    IF h.container = 0 THEN Finish(m, tool, context, h, NotReady, 0, 0)
    ELSE
    \E y \in Yields :
      LET items == TakeUntil(y.docs, k.n) IN
      IF ReachesEnd(y.docs, k.n) /\ y.ends = "cosmos"
      THEN Queried(m, tool, context, h,
                  QueryFailed([x \in {"query", "details", "company"} |->
                                 IF x = "query" THEN "BY_COMPANY_ORDER_BY_USERNAME"
                                 ELSE IF x = "company" THEN Strip(cv.s) ELSE "cosmos"]),
                  Sent("BY_COMPANY_ORDER_BY_USERNAME", <<Strip(cv.s)>>), y, k.n)
      ELSE IF ReachesEnd(y.docs, k.n) /\ y.ends = "other"
      THEN Queried(m, tool, context, h,
                  log_and_build_unhandled("other", "get_users_by_company"), Sent("BY_COMPANY_ORDER_BY_USERNAME", <<Strip(cv.s)>>), y, k.n)
      ELSE Queried(m, tool, context, h,
                  [query |-> "BY_COMPANY_ORDER_BY_USERNAME", companyName |-> Strip(cv.s),
                   count |-> Len(items), truncated |-> BreakHit(y.docs, k.n), results |-> items],
                  Sent("BY_COMPANY_ORDER_BY_USERNAME", <<Strip(cv.s)>>), y, k.n)


(***************************************************************************)
(* triggers/weather.py: a tool that uses no store                          *)
(***************************************************************************)
\* random.randint(-10, 35): the ends of the range stand for it
WeatherTemps == {-10, 35}

\* round(tempC * 9 / 5 + 32, 1), in tenths of a degree
TempF(tempC) == 18 * tempC + 320

\* the response of get_weather(context) when the generator draws tempC
WeatherResponse(context, tempC) ==
  LET parsed == HandlerArgs(context) IN
  IF ~parsed.ok THEN [error |-> "context parse failed", details |-> "JSONDecodeError"]
  ELSE
  LET city == Get(parsed.args, "city")
      time_value == Get(parsed.args, "time")
  IN
  IF ~Truthy(city) THEN [error |-> "city missing"]
  ELSE [city |-> city, time |-> IF Truthy(time_value) THEN time_value ELSE Str(<<"now">>),
        weather |-> [tempC |-> tempC, tempF |-> TempF(tempC)]]

get_weather(context) ==
  /\ \E tempC \in WeatherTemps : resp' = WeatherResponse(context, tempC)
  /\ req' = [tool |-> "get_weather", mod |-> "weather", context |-> context]
  /\ trace' = [init |-> "skipped", queries |-> 0, consumed |-> 0,
               sent |-> NoSent, yield |-> NoYield, ended |-> "unasked", handle |-> 0,
               clientBefore |-> 0, containerBefore |-> 0, attemptedBefore |-> FALSE]
  /\ UNCHANGED <<client, container, attempted, last, store, threads>>


(***************************************************************************)
(* Inputs: the documents of the store and the payloads callers send        *)
(***************************************************************************)
Absent == [t |-> "absent"]

\* the dict with the keys of f whose value is given
Dict(f) == [k \in {x \in DOMAIN f : f[x] # Absent} |-> f[k]]

Course(id, name, desc, company) ==
  [id |-> Str(id), courseName |-> name, description |-> desc, targetCompany |-> company]

Courses ==
  { Course(<<"c", "1">>, Str(<<"a", "b">>), NoneV, Str(<<"A">>)),
    Course(<<"c", "2">>, Str(<<"A", "b", "a", "b">>), Str(<<"a", SP, "b">>), Str(<<"A">>)),
    Course(<<"c", "3">>, Str(<<"b">>), Str(<<"b", "a">>), Str(<<"b", "A">>)),
    Course(<<"c", "4">>, Str(<<>>), IntV(3), Str(<<"a", "b", SP, "a">>)) }

User(id, name, company) == [id |-> Str(id), userName |-> Str(name), companyName |-> Str(company)]

Users ==
  { User(<<"u", "1">>, <<"b">>, <<"A">>),
    User(<<"u", "3">>, <<"a">>, <<"A">>),
    User(<<"u", "4">>, <<"a", "b">>, <<"b">>),
    User(<<"u", "1">>, <<"a">>, <<"b">>) }

Survey(id, course, user) == [id |-> Str(id), courseId |-> Str(course), userId |-> Str(user)]

Surveys ==
  { Survey(<<"s", "1">>, <<"c", "1">>, <<"u", "1">>),
    Survey(<<"s", "2">>, <<"c", "1">>, <<"u", "3">>) }

\* the documents the containers hold
InitialStore == [c \in {"courses", "users", "surveys"} |->
                   IF c = "courses" THEN Courses ELSE IF c = "users" THEN Users ELSE Surveys]

Init ==
  /\ client = [m \in Modules |-> 0]
  /\ container = [m \in Modules |-> 0]
  /\ attempted = [m \in Modules |-> FALSE]
  /\ req = Idle
  /\ resp = Idle
  /\ trace = Idle
  /\ last = Idle
  /\ store = InitialStore
  /\ threads = NoThreads

\* the longest run of documents one query yields
MaxYield == 3

YieldsOf(docs) ==
  {[docs |-> a, ends |-> e] : a \in {x \in Arrangements(docs) : Len(x) <= MaxYield}, e \in IterEnds}

CourseYields == YieldsOf(Courses)

\* the course of the scenario: named "Python U5165 U9580 U8B1B U5EA7"
PythonCourse ==
  Course(<<"c", "5">>, Str(<<"P", "y", "t", "h", "o", "n", SP, "U5165", "U9580", "U8B1B", "U5EA7">>),
         Str(<<"P", "y", "t", "h", "o", "n">>), Str(<<"A">>))

\* a course whose name is n times "a" and whose description is n + 1 times "b"
LongCourse(id, n) ==
  Course(id, Str([i \in 1..n |-> "a"]), Str([i \in 1..(n + 1) |-> "b"]), Str(<<"A">>))

\* courses with a name of one character fewer than the snippet length, of
\* exactly that length (and a description of one more), and of four more
LongCourses ==
  { LongCourse(<<"c", "6">>, SnippetLen - 1),
    LongCourse(<<"c", "7">>, SnippetLen),
    LongCourse(<<"c", "8">>, SnippetLen + 4) }

\* the courses container the search tools read
SearchCourses == Courses \cup {PythonCourse} \cup LongCourses

\* the course with the given id digit
CourseNo(n) == CHOOSE c \in SearchCourses : c.id = Str(<<"c", n>>)

\* longer answers of the courses container: the scenario course alone and
\* after another one, the long courses, and runs of four and five courses
LongerRuns ==
  { <<PythonCourse>>,
    <<CourseNo("1"), PythonCourse>>,
    <<CourseNo("6"), CourseNo("7"), CourseNo("8")>>,
    <<CourseNo("2"), CourseNo("1"), CourseNo("3"), CourseNo("4")>>,
    <<CourseNo("1"), CourseNo("2"), CourseNo("3"), CourseNo("5")>>,
    <<CourseNo("3"), CourseNo("5"), CourseNo("2"), CourseNo("1"), CourseNo("4")>> }

SearchYields ==
  CourseYields \cup {[docs |-> a, ends |-> e] : a \in LongerRuns, e \in IterEnds}

\* the characters of the key names callers write in JSON texts
KeyChars(k) ==
  CASE k = "searchTerm" -> <<"s", "e", "a", "r", "c", "h", "T", "e", "r", "m">>
    [] k = "topK" -> <<"t", "o", "p", "K">>
    [] k = "arguments" -> <<"a", "r", "g", "u", "m", "e", "n", "t", "s">>
    [] k = "mcpToolArgs" -> <<"m", "c", "p", "T", "o", "o", "l", "A", "r", "g", "s">>
    [] OTHER -> <<"r", "a", "w">>

\* the compact JSON text a caller sends for a value: a map, a string or a
\* natural number
RECURSIVE JsonText(_), JsonMembersText(_, _)
JsonText(v) ==
  CASE v.t = "str" -> <<QUOTE>> \o v.s \o <<QUOTE>>
    [] v.t = "int" -> Decimal(v.n)
    [] OTHER -> <<LBRACE>> \o JsonMembersText(v.d, DOMAIN v.d) \o <<RBRACE>>

JsonMembersText(d, keys) ==
  IF keys = {} THEN <<>>
  ELSE LET k == CHOOSE x \in keys : TRUE
           member == <<QUOTE>> \o KeyChars(k) \o <<QUOTE, COLON>> \o JsonText(d[k])
       IN IF keys = {k} THEN member
          ELSE member \o <<COMMA>> \o JsonMembersText(d, keys \ {k})

\* the maps callers send both natively and as JSON text: plain, wrapped under
\* either key, under both, and with an "arguments" entry that is no map
PayloadMaps ==
  { [k \in {"searchTerm"} |-> Str(<<"b">>)],
    [k \in {"searchTerm", "topK"} |-> IF k = "topK" THEN IntV(1) ELSE Str(<<"a">>)],
    [k \in {"arguments"} |-> DictV([x \in {"searchTerm"} |-> Str(<<"b">>)])],
    [k \in {"mcpToolArgs"} |-> DictV([x \in {"searchTerm"} |-> Str(<<"a", SP, "b">>)])],
    [k \in {"arguments", "mcpToolArgs"} |->
       DictV([x \in {"searchTerm"} |-> IF k = "arguments" THEN Str(<<"a">>) ELSE Str(<<"b">>)])],
    [k \in {"arguments", "mcpToolArgs"} |->
       IF k = "arguments" THEN Str(<<"a">>) ELSE DictV([x \in {"searchTerm"} |-> Str(<<"b">>)])] }

\* string payloads: each map as JSON text, one of them padded with whitespace,
\* one cut before its closing brace, and a JSON string literal
TextContexts ==
  { Str(JsonText(DictV(d))) : d \in PayloadMaps }
  \cup { Str(<<SP>> \o JsonText(DictV([k \in {"searchTerm"} |-> Str(<<"b">>)])) \o <<NL>>),
         Str(<<LBRACE, QUOTE>> \o KeyChars("searchTerm") \o <<QUOTE, COLON, QUOTE, "b", QUOTE>>),
         Str(<<QUOTE, "a", QUOTE>>) }

SearchTermChoices ==
  { Absent, Str(<<>>), Str(<<SP, FW>>), IntV(7),
    Str(<<"a">>), Str(<<"A", "b">>), Str(<<"b", FW, "a">>),
    Str(<<SP, "a", "b", "a", "b", "a", SP>>) }

TopKChoices == { Absent, IntV(-1), IntV(1), IntV(2), Str(<<"x">>), Str(<<"2">>) }

SearchContexts ==
  { DictV(Dict([k \in {"searchTerm", "topK"} |-> IF k = "searchTerm" THEN t ELSE n])) :
      t \in SearchTermChoices, n \in TopKChoices }
  \cup { NoneV, Str(<<"a", SP, "b">>), Str(<<SP>>), Str(<<"1", "2">>) }
  \cup { DictV(d) : d \in PayloadMaps }
  \cup TextContexts
  \cup { DictV([k \in {"searchTerm", "topK"} |->
                 IF k = "topK" THEN IntV(5)
                 ELSE Str(<<SP, "P", "y", "t", "h", "o", "n", SP, "U5165", "U9580", SP>>)]) }

MaxScanChoices == { Absent, IntV(2) }

MinScoreChoices == { Absent, FloatV(33333), IntV(1), FloatV(-100000), Str(<<"x">>) }

ScanContexts ==
  { DictV(Dict([k \in {"searchTerm", "topK", "maxScan", "minScore"} |->
                  IF k = "searchTerm" THEN t ELSE IF k = "topK" THEN n
                  ELSE IF k = "maxScan" THEN ms ELSE mn])) :
      t \in SearchTermChoices \ {Str(<<SP, FW>>)}, n \in TopKChoices \ {Str(<<"2">>)},
      ms \in MaxScanChoices, mn \in MinScoreChoices }
  \cup { NoneV, Str(<<"a", SP, "b">>), Str(<<"1", "2">>),
         DictV([k \in {"mcpToolArgs"} |-> DictV([x \in {"searchTerm"} |-> Str(<<"b">>)])]) }

(***************************************************************************)
(* The search tools of both strategies against the courses container       *)
(***************************************************************************)
SearchByPredicate ==
  /\ resp = Idle
  /\ \E field \in Fields, context \in SearchContexts :
       _search_field(field, context, SearchYields)

SearchByScan ==
  /\ resp = Idle
  /\ \E field \in Fields, context \in ScanContexts :
       _handler(field, context, SearchYields)

NextSearch == SearchByPredicate \/ SearchByScan \/ Deliver

\* a process whose two search modules have initialised their handles
InitSearchReady ==
  /\ client = [m \in Modules |-> IF m \in {"course_search", "courses"} THEN 1 ELSE 0]
  /\ container = [m \in Modules |-> IF m \in {"course_search", "courses"} THEN 1 ELSE 0]
  /\ attempted = [m \in Modules |-> m \in {"course_search", "courses"}]
  /\ req = Idle
  /\ resp = Idle
  /\ trace = Idle
  /\ last = Idle
  /\ store = [InitialStore EXCEPT !["courses"] = SearchCourses]
  /\ threads = NoThreads

SpecSearch == InitSearchReady /\ [][NextSearch]_vars


(***************************************************************************)
(* A search and its repetition: a search that queried the store and        *)
(* returned a payload is kept, and the same tool is then invoked with the  *)
(* same payload while the store answers the same documents in the same     *)
(* order                                                                   *)
(***************************************************************************)
RepeatSearchContexts ==
  { Str(<<"a", SP, "b">>),
    DictV([k \in {"searchTerm"} |-> Str(<<"b", FW, "a">>)]),
    DictV([k \in {"searchTerm", "topK"} |-> IF k = "topK" THEN IntV(2) ELSE Str(<<"a">>)]),
    DictV([k \in {"searchTerm", "topK"} |-> IF k = "topK" THEN IntV(1) ELSE Str(<<"A", "b">>)]) }

RepeatScanContexts ==
  { DictV([k \in {"searchTerm"} |-> Str(<<"A", "b">>)]),
    DictV([k \in {"searchTerm", "topK"} |-> IF k = "topK" THEN IntV(2) ELSE Str(<<"a">>)]),
    DictV([k \in {"searchTerm", "minScore"} |-> IF k = "minScore" THEN FloatV(33333) ELSE Str(<<"b", "a">>)]),
    DictV([k \in {"searchTerm", "maxScan"} |-> IF k = "maxScan" THEN IntV(2) ELSE Str(<<"b">>)]) }

FirstSearchByPredicate ==
  /\ resp = Idle /\ last = Idle
  /\ \E field \in Fields, context \in RepeatSearchContexts :
       _search_field(field, context, CourseYields)

FirstSearchByScan ==
  /\ resp = Idle /\ last = Idle
  /\ \E field \in Fields, context \in RepeatScanContexts :
       _handler(field, context, CourseYields)

\* the answered search is kept
Remember ==
  /\ resp # Idle /\ last = Idle
  /\ trace.queries = 1 /\ "results" \in DOMAIN resp
  /\ last' = [req |-> req, yield |-> trace.yield, init |-> trace.init, results |-> resp.results]
  /\ req' = Idle
  /\ resp' = Idle
  /\ trace' = Idle
  /\ UNCHANGED <<client, container, attempted, store, threads>>

RepeatSearchByPredicate ==
  /\ resp = Idle /\ last # Idle
  /\ \E field \in Fields :
       /\ SearchTool(field) = last.req.tool
       /\ _search_field(field, last.req.context, {last.yield})

RepeatSearchByScan ==
  /\ resp = Idle /\ last # Idle
  /\ \E field \in Fields :
       /\ ScanTool(field) = last.req.tool
       /\ _handler(field, last.req.context, {last.yield})

NextRepeat ==
  \/ FirstSearchByPredicate
  \/ FirstSearchByScan
  \/ Remember
  \/ RepeatSearchByPredicate
  \/ RepeatSearchByScan
  \/ Deliver

SpecRepeat == Init /\ [][NextRepeat]_vars


(***************************************************************************)
(* The lookup tools against the users and surveys containers               *)
(***************************************************************************)
UserYields == YieldsOf(Users)

SurveyYields == YieldsOf(Surveys)

UserIdsChoices ==
  { Absent, Str(<<>>), Str(<<COMMA, SP, NL>>), ListV,
    Str(<<"u", "1">>),
    Str(<<"u", "1", COMMA, "u", "2", COMMA, "u", "3">>),
    Str(<<SP, "u", "4", SP, NL, "u", "1", COMMA>>),
    Str(<<"u", "3", COMMA, "u", "3">>) }

IdsContexts ==
  { DictV(Dict([k \in {"userIds"} |-> v])) : v \in UserIdsChoices }
  \cup { NoneV, Str(<<"u", "1">>) }

CompanyContexts ==
  { DictV(Dict([k \in {"companyName", "topK"} |-> IF k = "companyName" THEN c ELSE n])) :
      c \in {Absent, Str(<<SP>>), Str(<<"A">>), IntV(7)}, n \in TopKChoices \cup {IntV(0)} }
  \cup { NoneV }

SurveyContexts ==
  { DictV(Dict([k \in {"courseId", "userId", "topK"} |->
                  IF k = "courseId" THEN c ELSE IF k = "userId" THEN u ELSE n])) :
      c \in {Absent, Str(<<"c", "1">>), IntV(7)}, u \in {Absent, Str(<<SP>>), Str(<<"u", "1">>)},
      n \in {Absent, IntV(1), Str(<<"x">>)} }
  \cup { NoneV, Str(<<"c", "1">>) }

ListContexts == { NoneV, DictV(EmptyDict), Str(<<"a">>) }

\* a container of n courses n1 .. nn, read in that order
NumberedCourses(n) ==
  [i \in 1..n |-> Course(<<"n">> \o Decimal(i), Str(<<"a">>), NoneV, Str(<<"A">>))]

\* what the courses container may answer to list-all: the small yields, and
\* containers of one document fewer than the cap, exactly the cap, one more
ListYields ==
  CourseYields \cup
  {[docs |-> NumberedCourses(n), ends |-> e] :
     n \in {ListCap - 1, ListCap, ListCap + 1}, e \in IterEnds}

ListAll ==
  /\ resp = Idle
  /\ \E context \in ListContexts : list_all_courses_mcp(context, ListYields)

QuerySurveys ==
  /\ resp = Idle
  /\ \E context \in SurveyContexts : query_surveys_mcp(context, SurveyYields)

GetUsersByIds ==
  /\ resp = Idle
  /\ \E context \in IdsContexts : get_users_by_ids_mcp(context, UserYields)

\* n users of company A, named u1 .. un (ids n1 .. nn), as the store orders them
NumberedUsers(n) == [i \in 1..n |-> User(<<"n">> \o Decimal(i), <<"u">> \o Decimal(i), <<"A">>)]

\* what the users container may answer to get-by-company: the small yields,
\* five matching users, and one user more than the default topK
CompanyYields ==
  UserYields \cup
  {[docs |-> NumberedUsers(n), ends |-> e] :
     n \in {5, CompanyTopK(EmptyDict).n + 1}, e \in IterEnds}

GetUsersByCompany ==
  /\ resp = Idle
  /\ \E context \in CompanyContexts : get_users_by_company_mcp(context, CompanyYields)

NextLookup == ListAll \/ QuerySurveys \/ GetUsersByIds \/ GetUsersByCompany \/ Deliver

\* the containers of the lookup tools hold the numbered documents as well
LookupStore ==
  [c \in {"courses", "users", "surveys"} |->
     IF c = "courses" THEN Courses \cup {NumberedCourses(ListCap + 1)[i] : i \in 1..(ListCap + 1)}
     ELSE IF c = "users"
     THEN Users \cup {NumberedUsers(CompanyTopK(EmptyDict).n + 1)[i] : i \in 1..(CompanyTopK(EmptyDict).n + 1)}
     ELSE Surveys]

\* a process whose lookup modules have initialised their handles
InitLookupReady ==
  /\ client = [m \in Modules |-> IF m \in {"course_list", "survey_query", "user_query"} THEN 1 ELSE 0]
  /\ container = [m \in Modules |-> IF m \in {"course_list", "survey_query", "user_query"} THEN 1 ELSE 0]
  /\ attempted = [m \in Modules |-> m \in {"course_list", "survey_query", "user_query"}]
  /\ req = Idle
  /\ resp = Idle
  /\ trace = Idle
  /\ last = Idle
  /\ store = LookupStore
  /\ threads = NoThreads

SpecLookup == InitLookupReady /\ [][NextLookup]_vars

(***************************************************************************)
(* The whole process: every tool, from a fresh start, with a few payloads  *)
(* of each kind and a store that yields at most one document               *)
(***************************************************************************)
FewYields(docs) ==
  {[docs |-> <<>>, ends |-> e] : e \in IterEnds} \cup {[docs |-> <<d>>, ends |-> "none"] : d \in docs}

FewCourseYields == FewYields({c \in Courses : c.id \in {Str(<<"c", "1">>), Str(<<"c", "2">>)}})
FewUserYields == FewYields({u \in Users : u.id = Str(<<"u", "1">>) /\ u.companyName = Str(<<"A">>)})
FewSurveyYields == FewYields({v \in Surveys : v.id = Str(<<"s", "1">>)})

FewSearchContexts ==
  { NoneV, Str(<<"a">>),
    DictV([k \in {"searchTerm"} |-> Str(<<SP, FW>>)]),
    DictV([k \in {"searchTerm"} |-> IntV(7)]),
    DictV([k \in {"searchTerm"} |-> Str(<<"b", FW, "a">>)]),
    DictV([k \in {"searchTerm", "topK"} |-> IF k = "topK" THEN Str(<<"x">>) ELSE Str(<<"a">>)]),
    DictV([k \in {"searchTerm", "topK"} |-> IF k = "topK" THEN IntV(1) ELSE Str(<<"A", "b">>)]) }

FewScanContexts == (FewSearchContexts \ {Str(<<"a">>)}) \cup {Str(<<"1", "2">>), Str(<<"a">>)}

FewSurveyContexts ==
  { NoneV, Str(<<"c", "1">>),
    DictV([k \in {"courseId"} |-> Str(<<"c", "1">>)]),
    DictV([k \in {"userId"} |-> Str(<<"u", "1">>)]),
    DictV([k \in {"courseId", "userId"} |-> Str(<<"c", "1">>)]),
    DictV([k \in {"courseId"} |-> IntV(7)]),
    DictV([k \in {"userId", "topK"} |-> IF k = "topK" THEN Str(<<"x">>) ELSE Str(<<"u", "1">>)]) }

FewIdsContexts ==
  { NoneV, DictV([k \in {"userIds"} |-> ListV]),
    DictV([k \in {"userIds"} |-> Str(<<"u", "1", COMMA, "u", "2">>)]) }

FewCompanyContexts ==
  { NoneV, DictV([k \in {"companyName"} |-> IntV(7)]),
    DictV([k \in {"companyName"} |-> Str(<<"A">>)]),
    DictV([k \in {"companyName", "topK"} |-> IF k = "topK" THEN Str(<<"x">>) ELSE Str(<<"A">>)]) }

AnySearchByPredicate ==
  /\ resp = Idle
  /\ \E field \in Fields, context \in FewSearchContexts :
       _search_field(field, context, FewCourseYields)

AnySearchByScan ==
  /\ resp = Idle
  /\ \E field \in Fields, context \in FewScanContexts :
       _handler(field, context, FewCourseYields)

AnyListAll ==
  /\ resp = Idle
  /\ \E context \in ListContexts : list_all_courses_mcp(context, FewCourseYields)

AnyQuerySurveys ==
  /\ resp = Idle
  /\ \E context \in FewSurveyContexts : query_surveys_mcp(context, FewSurveyYields)

AnyGetUsersByIds ==
  /\ resp = Idle
  /\ \E context \in FewIdsContexts : get_users_by_ids_mcp(context, FewUserYields)

AnyGetUsersByCompany ==
  /\ resp = Idle
  /\ \E context \in FewCompanyContexts : get_users_by_company_mcp(context, FewUserYields)

WeatherContexts ==
  { NoneV, Str(<<"a">>), Str(<<"1", "2">>),
    DictV([k \in {"city"} |-> Str(<<"a">>)]),
    DictV([k \in {"city", "time"} |-> IF k = "city" THEN Str(<<"b">>) ELSE Str(<<"1">>)]) }

GetWeather ==
  /\ resp = Idle
  /\ \E context \in WeatherContexts : get_weather(context)

Next ==
  \/ AnySearchByPredicate
  \/ AnySearchByScan
  \/ AnyListAll
  \/ AnyQuerySurveys
  \/ AnyGetUsersByIds
  \/ AnyGetUsersByCompany
  \/ GetWeather
  \/ Deliver

Spec == Init /\ [][Next]_vars

\* worker threads running predicate searches concurrently in a fresh process
SpecConcurrent == Init /\ [][NextConcurrent]_vars


(***************************************************************************)
(* Properties                                                              *)
(***************************************************************************)
PredicateTools == {SearchTool(f) : f \in Fields}
ScanTools == {ScanTool(f) : f \in Fields}
McpModules == Modules \ {"courses"}

Answered == resp # Idle
HasResults == Answered /\ "results" \in DOMAIN resp
SearchAnswered == Answered /\ req.tool \in PredicateTools \cup ScanTools
SearchPayloadReturned == SearchAnswered /\ HasResults /\ "topK" \in DOMAIN resp

ScoresDescending(rs) == \A i \in 1..Len(rs), j \in 1..Len(rs) : i < j => rs[i].score >= rs[j].score

\* C1: every search that returns a result payload (either strategy) returns at
\* most topK results, ordered by score non-increasing.
C1_AtMostTopKSortedDescending ==
  SearchPayloadReturned =>
    /\ Len(resp.results) <= resp.topK
    /\ ScoresDescending(resp.results)

\* the maximal runs of characters of s between half-width and full-width spaces
SpaceSeparatedRuns(s) ==
  {SubSeq(s, p[1], p[2]) :
     p \in {q \in (1..Len(s)) \X (1..Len(s)) :
              /\ q[1] <= q[2]
              /\ \A n \in q[1]..q[2] : s[n] \notin {SP, FW}
              /\ (q[1] = 1 \/ s[q[1] - 1] \in {SP, FW})
              /\ (q[2] = Len(s) \/ s[q[2] + 1] \in {SP, FW})}}

\* C2: every result of the predicate search has a string field value whose
\* lowercase form contains every lowercase query token, whatever documents the
\* store yielded.
C2_ResultsContainEveryToken ==
  (HasResults /\ req.tool \in PredicateTools) =>
    \A i \in 1..Len(resp.results) :
      /\ IsStr(Get(resp.results[i].doc, resp.field))
      /\ Get(resp.results[i].doc, resp.field).s = resp.results[i].fieldValue
      /\ \A tok \in SpaceSeparatedRuns(Lower(resp.query)) :
           Contains(tok, Lower(resp.results[i].fieldValue))

\* C2 witness: the store yielded a document that lacks a token, the search
\* dropped it and returned another one, for a query of two tokens.
C2_Witness ==
  /\ HasResults /\ req.tool \in PredicateTools
  /\ Cardinality(SpaceSeparatedRuns(Lower(resp.query))) = 2
  /\ Len(resp.results) = 1
  /\ trace.consumed = 3
  /\ resp.topK >= 2

\* C3: every result of a search (either strategy) has a score between 0 and 1
\* (0 and 10000 in units of 1/10000).
C3_ScoreBetweenZeroAndOne ==
  SearchPayloadReturned =>
    \A i \in 1..Len(resp.results) :
      resp.results[i].score >= 0 /\ resp.results[i].score <= 10000

\* C3 witness: a predicate search whose query is longer than the field value of
\* a result.
C3_Witness ==
  /\ SearchPayloadReturned /\ req.tool \in PredicateTools
  /\ \E i \in 1..Len(resp.results) :
       /\ Len(resp.query) > Len(resp.results[i].fieldValue)
       /\ resp.results[i].score = 10000

\* the ids a get-by-ids request asks for
RequestedIds == _normalize_ids(Get(parse_args(req.context), "userIds"))

ReturnedIds == {resp.results[k].id : k \in 1..Len(resp.results)}

IdsResponse == Answered /\ req.tool = "get_users_by_ids_mcp" /\ "missingIds" \in DOMAIN resp

\* C4: in a successful get-by-ids response missingIds is exactly the requested
\* ids that are the id of no returned document, none of them is the id of a
\* returned document, and "u1,u2,u3" with u1 and u3 returned gives
\* missingIds = ["u2"] and count = 2.
C4_MissingIdsIsRequestedMinusFound ==
  IdsResponse =>
    /\ {resp.missingIds[i] : i \in 1..Len(resp.missingIds)}
         = {RequestedIds[j] : j \in {n \in 1..Len(RequestedIds) : Str(RequestedIds[n]) \notin ReturnedIds}}
    /\ \A i \in 1..Len(resp.missingIds) : Str(resp.missingIds[i]) \notin ReturnedIds
    /\ ( /\ RequestedIds = << <<"u", "1">>, <<"u", "2">>, <<"u", "3">> >>
         /\ ReturnedIds = {Str(<<"u", "1">>), Str(<<"u", "3">>)}
         /\ Len(resp.results) = 2 )
       => (resp.missingIds = << <<"u", "2">> >> /\ resp.count = 2)

\* C4 witness: "u1,u2,u3" was requested and the store returned u1 and u3.
C4_Witness ==
  /\ IdsResponse
  /\ RequestedIds = << <<"u", "1">>, <<"u", "2">>, <<"u", "3">> >>
  /\ ReturnedIds = {Str(<<"u", "1">>), Str(<<"u", "3">>)}
  /\ resp.missingIds = << <<"u", "2">> >>
  /\ resp.count = 2

\* the query of a search request is empty or whitespace only
BlankQuery(context) ==
  LET v == SearchTerm(parse_args(context)) IN
  IsStr(v) /\ \A i \in 1..Len(v.s) : v.s[i] \in Whitespace

\* C5: a predicate search with an empty or whitespace-only query returns a
\* ValidationError and neither queries the store nor calls the initialisation.
C5_BlankQueryIsValidationErrorWithoutStoreCall ==
  (Answered /\ req.tool \in PredicateTools /\ BlankQuery(req.context)) =>
    /\ ErrorKind(resp) = "ValidationError"
    /\ trace.queries = 0
    /\ trace.init = "skipped"
    /\ client[req.mod] = trace.clientBefore
    /\ container[req.mod] = trace.containerBefore

\* C5 witness: a whitespace-only query sent to a module that has no handle yet.
C5_Witness ==
  /\ Answered /\ req.tool \in PredicateTools
  /\ Get(parse_args(req.context), "searchTerm") = Str(<<SP, FW>>)
  /\ ErrorKind(resp) = "ValidationError"
  /\ trace.clientBefore = 0


StoreBackedCall == Answered /\ trace.init # "skipped"

\* C6: once a module holds a client or container handle no step builds
\* another one, and a query is always issued on the handle the module held
\* before the invocation, if it held one.
C6_HandleInitialisedAtMostOnce ==
  [][ /\ \A m \in Modules :
           /\ client[m] # 0 => client'[m] = client[m]
           /\ container[m] # 0 => container'[m] = container[m]
      /\ (resp' # Idle /\ trace'.queries > 0) =>
           /\ trace'.handle = container'[req'.mod]
           /\ trace'.containerBefore # 0 => trace'.handle = trace'.containerBefore
           /\ trace'.clientBefore # 0 => trace'.init = "cached" ]_vars

\* C6 witness: a later invocation queried the store on the handle an earlier
\* invocation had established.
C6_Witness ==
  /\ Answered
  /\ trace.queries = 1
  /\ trace.containerBefore = 1
  /\ trace.handle = 1
  /\ trace.init = "cached"

\* C7 as claimed: once an initialisation has failed in a module (for any of
\* the three reasons), every later store-backed call there returns
\* DependencyNotReady without another attempt.
C7_AnyInitFailureIsCached ==
  (StoreBackedCall /\ req.mod \in McpModules
     /\ trace.attemptedBefore /\ trace.containerBefore = 0) =>
    /\ ErrorKind(resp) = "DependencyNotReady"
    /\ trace.init = "cached"

\* C7 amended: in the functions/mcpTriggers modules a failure after the client
\* was built (handle acquisition raised) is cached: every later store-backed
\* call returns DependencyNotReady with no attempt and no query, and the
\* handles stay as they are; a failure before the client exists (no endpoint
\* or key, or the constructor raised) is not cached: the next store-backed
\* call reads the configuration again.
C7_OnlyAcquisitionFailureIsCached ==
  (StoreBackedCall /\ req.mod \in McpModules /\ trace.containerBefore = 0) =>
    /\ trace.clientBefore # 0 =>
         /\ ErrorKind(resp) = "DependencyNotReady"
         /\ trace.init = "cached"
         /\ trace.queries = 0
         /\ client[req.mod] = trace.clientBefore
         /\ container[req.mod] = 0
    /\ trace.clientBefore = 0 => trace.init \in InitOutcomes

\* C7 witness: a call that found the client built and the container missing.
C7_Witness ==
  /\ StoreBackedCall /\ req.mod \in McpModules
  /\ trace.clientBefore = 1
  /\ trace.containerBefore = 0
  /\ ErrorKind(resp) = "DependencyNotReady"

\* C8: no exception leaves a tool entry point: every invocation returns a map.
C8_NoExceptionEscapes == Answered => ~IsRaised(resp)

\* the topK argument of a request is absent or not a number
TopKAbsentOrNotNumeric(context) ==
  LET v == Get(parse_args(context), "topK") IN
  v.t = "none" \/ (v.t = "str" /\ \E i \in 1..Len(v.s) : v.s[i] \notin Digits)

\* C9: a search with a non-empty query whose topK is absent or not numeric
\* runs with topK = 5 and does not fail on the argument.
C9_TopKDefaultsToFive ==
  (SearchAnswered /\ ~BlankQuery(req.context) /\ IsStr(SearchTerm(parse_args(req.context)))
     /\ TopKAbsentOrNotNumeric(req.context)) =>
    /\ ~IsRaised(resp)
    /\ "topK" \in DOMAIN resp => resp.topK = 5

\* C10: a store-backed call that has no container handle after its
\* initialisation returns DependencyNotReady and issues no query.
C10_NoHandleIsDependencyNotReady ==
  (StoreBackedCall /\ container[req.mod] = 0) =>
    /\ ErrorKind(resp) = "DependencyNotReady"
    /\ trace.queries = 0

\* the iterator of the invocation's query raised while the handler read it
QueryFailedDuring == Answered /\ trace.queries > 0 /\ trace.ended \in {"cosmos", "other"}

\* the response is a structured error and carries no documents
StructuredErrorOnly ==
  /\ ErrorKind(resp) \in {"CosmosQueryError", "UnhandledException"}
  /\ "traceId" \in DOMAIN resp
  /\ "results" \notin DOMAIN resp

\* C11: an invocation issues at most one store query, and when the query or
\* the iteration over its results fails the invocation returns a structured
\* error without the documents already collected.
C11_FailedQueryIsStructuredErrorWithoutRetry ==
  Answered =>
    /\ trace.queries <= 1
    /\ QueryFailedDuring => StructuredErrorOnly

\* C11 for the tools of functions/mcpTriggers only
C11_McpToolsSurfaceFailure ==
  (Answered /\ req.mod \in McpModules) =>
    /\ trace.queries <= 1
    /\ QueryFailedDuring => StructuredErrorOnly

\* a tool of functions/mcpTriggers had collected documents when the iterator
\* raised, and answered with the error alone
C11_McpFailureAfterDocuments ==
  /\ QueryFailedDuring /\ req.mod \in McpModules
  /\ trace.consumed >= 2
  /\ StructuredErrorOnly

\* the field a predicate search tool searches
SearchedField == CHOOSE f \in Fields : SearchTool(f) = req.tool

PredicateQueryFailed == QueryFailedDuring /\ req.tool \in PredicateTools

\* C12 as claimed: a predicate search whose store query failed returns a
\* CosmosQueryError whose payload has the query text and the searched field.
C12_FailedSearchCarriesQueryAndField ==
  PredicateQueryFailed =>
    /\ ErrorKind(resp) = "CosmosQueryError"
    /\ "query" \in DOMAIN resp
    /\ "field" \in DOMAIN resp

\* C12 amended: when the iterator raises CosmosHttpResponseError the error is
\* a CosmosQueryError whose payload is error, type, traceId, details and
\* query, the query text naming the searched field; there is no field entry.
\* When it raises anything else the error is an UnhandledException naming
\* the tool search_<field>, without the query text.
C12_CosmosFailureCarriesQueryText ==
  PredicateQueryFailed =>
    /\ trace.ended = "cosmos" =>
         /\ ErrorKind(resp) = "CosmosQueryError"
         /\ DOMAIN resp = {"error", "type", "traceId", "details", "query"}
         /\ resp.query.field = SearchedField
         /\ resp.query.text = "CONTAINS_LOWER_AND"
    /\ trace.ended = "other" =>
         /\ ErrorKind(resp) = "UnhandledException"
         /\ DOMAIN resp = {"error", "type", "traceId", "details", "tool"}
         /\ resp.tool = <<"search_", SearchedField>>

\* C12 witness: a search on the description field read a document and then
\* the iterator raised CosmosHttpResponseError.
C12_Witness ==
  /\ PredicateQueryFailed
  /\ trace.ended = "cosmos"
  /\ trace.consumed >= 1
  /\ SearchedField = "description"
  /\ ErrorKind(resp) = "CosmosQueryError"

\* C13: every error response of every tool carries an error message, a type
\* and a traceId.
C13_EveryErrorHasTypeAndTraceId ==
  (Answered /\ IsError(resp)) => {"error", "type", "traceId"} \subseteq DOMAIN resp

\* C13 for the tools of functions/mcpTriggers only
C13_McpErrorsHaveTypeAndTraceId ==
  (Answered /\ IsError(resp) /\ req.mod \in McpModules) =>
    {"error", "type", "traceId"} \subseteq DOMAIN resp

SurveyAnswered == Answered /\ req.tool = "query_surveys_mcp"

\* the survey request supplies a non-empty id under key
IdGiven(key) ==
  LET v == Get(parse_args(req.context), key) IN IsStr(v) /\ Strip(v.s) # <<>>

\* the survey request supplies no id under key (absent, None, empty or blank)
IdNotGiven(key) ==
  LET v == Get(parse_args(req.context), key) IN
  v.t = "none" \/ (IsStr(v) /\ Strip(v.s) = <<>>)

NoStoreTouched == trace.queries = 0 /\ trace.init = "skipped"

SurveyTable ==
  /\ (IdGiven("courseId") /\ IdGiven("userId")) =>
       ErrorKind(resp) = "ValidationError" /\ NoStoreTouched
  /\ (IdNotGiven("courseId") /\ IdNotGiven("userId")) =>
       /\ ~IsError(resp) /\ ~IsRaised(resp)
       /\ resp.count = 0 /\ resp.results = <<>>
       /\ "usageExamples" \in DOMAIN resp
       /\ NoStoreTouched
  /\ (IdGiven("courseId") /\ IdNotGiven("userId")) =>
       \/ ErrorKind(resp) = "DependencyNotReady" /\ trace.queries = 0
       \/ /\ trace.queries = 1
          /\ trace.sent = Sent("BY_COURSE_ID", <<Strip(Get(parse_args(req.context), "courseId").s)>>)
  /\ (IdNotGiven("courseId") /\ IdGiven("userId")) =>
       \/ ErrorKind(resp) = "DependencyNotReady" /\ trace.queries = 0
       \/ /\ trace.queries = 1
          /\ trace.sent = Sent("BY_USER_ID", <<Strip(Get(parse_args(req.context), "userId").s)>>)

\* C14: the survey query's decision table: both ids is a ValidationError,
\* neither is a usage hint that is no error (count 0, no results, examples),
\* both without touching the store; exactly one issues the equality query on
\* that key only.
C14_SurveyDecisionTable == SurveyAnswered => SurveyTable

\* the topK of the request is absent or a number
TopKUsable ==
  LET v == Get(parse_args(req.context), "topK") IN
  v.t \in {"none", "int"} \/ (v.t = "str" /\ \A i \in 1..Len(v.s) : v.s[i] \in Digits)

\* C14 for requests whose topK is absent or numeric
C14_SurveyDecisionTableUsableTopK == (SurveyAnswered /\ TopKUsable) => SurveyTable

\* both ids were supplied and the answer was the ValidationError
C14_BothIdsRejected ==
  /\ SurveyAnswered /\ IdGiven("courseId") /\ IdGiven("userId")
  /\ ErrorKind(resp) = "ValidationError"

\* the query text of a predicate search on field with n tokens: it is made
\* of the field and the parameter names @t0 .. @t(n-1) alone
QueryTextFor(field, n) ==
  [text |-> "CONTAINS_LOWER_AND", field |-> field,
   operands |-> [i \in 1..n |-> <<"@t", DecimalDigits[i]>>]]

\* the fixed query texts of the lookup tools
LookupQueryTexts ==
  [query_surveys_mcp |-> {"BY_COURSE_ID", "BY_USER_ID"},
   get_users_by_ids_mcp |-> {"ARRAY_CONTAINS_IDS"},
   get_users_by_company_mcp |-> {"BY_COMPANY_ORDER_BY_USERNAME"}]

\* C15: the query text sent to the store never holds a caller-supplied
\* value: for a predicate search it is determined by the field and the number
\* of tokens, the tokens travelling as parameter values; for the survey
\* query, get-by-ids and get-by-company it is one of the tool's fixed texts
\* and the caller's value travels as the parameter.
C15_QueryTextHoldsNoCallerValue ==
  (Answered /\ trace.queries > 0) =>
    /\ req.tool \in PredicateTools =>
         /\ trace.sent.query = QueryTextFor(SearchedField, Len(trace.sent.params))
         /\ trace.sent.params = _tokenize(Lower(Strip(SearchTerm(parse_args(req.context)).s)))
    /\ req.tool \in DOMAIN LookupQueryTexts =>
         /\ trace.sent.query \in LookupQueryTexts[req.tool]
         /\ Len(trace.sent.params) = 1

\* C15 witness: a predicate search of two tokens sent its query.
C15_Witness ==
  /\ Answered /\ trace.queries > 0 /\ req.tool \in PredicateTools
  /\ trace.sent.params = << <<"b">>, <<"a">> >>
  /\ trace.sent.query = QueryTextFor("targetCompany", 2)

\* the answered invocation repeats the kept one: same tool, same payload,
\* and the store answered the same documents in the same order
RepeatsLast ==
  /\ Answered /\ last # Idle
  /\ req = last.req
  /\ trace.queries = 1 /\ trace.yield = last.yield
  /\ "results" \in DOMAIN resp

ScanPayloadReturned == Answered /\ req.tool \in ScanTools /\ "results" \in DOMAIN resp

\* the similarity of result r before rounding, as the fraction num/den
RawScore(r) == _score(Lower(Strip(resp.query)), Lower(r.fieldValue))

\* C17 as claimed: the reported score of every scan result (units of
\* 1/10000) is at least minScore (units of 1/100000).
C17_ReportedScoreAtLeastMinScore ==
  ScanPayloadReturned =>
    \A i \in 1..Len(resp.results) : 10 * resp.results[i].score >= resp.minScore

\* C17 amended: the similarity before rounding is at least minScore; the
\* reported score is that similarity rounded to 4 places, so it is at least
\* minScore - 0.00005, and at least minScore when minScore has no more than
\* 4 decimal places.
C17_UnroundedScoreAtLeastMinScore ==
  ScanPayloadReturned =>
    \A i \in 1..Len(resp.results) :
      LET r == resp.results[i] IN
      /\ RawScore(r).num * FloatUnit >= resp.minScore * RawScore(r).den
      /\ r.score = Round4(RawScore(r).num, RawScore(r).den)
      /\ 10 * r.score + 5 >= resp.minScore
      /\ resp.minScore % 10 = 0 => 10 * r.score >= resp.minScore

\* C17 witness: a result whose similarity 1/3 passes minScore = 0.33333 and
\* is reported as 0.3333.
C17_Witness ==
  /\ ScanPayloadReturned
  /\ resp.minScore = 33333
  /\ \E i \in 1..Len(resp.results) :
       /\ resp.results[i].score = 3333
       /\ RawScore(resp.results[i]) = [num |-> 2, den |-> 6]

\* the documents the scan read from the store, in order
Scanned == SubSeq(trace.yield.docs, 1, trace.consumed)

\* the trimmed, lowercased query is a substring of the lowercased field of d
QueryInField(d) ==
  /\ IsStr(Get(d, resp.field))
  /\ Contains(Lower(Strip(resp.query)), Lower(Get(d, resp.field).s))

\* C18: in a scan, a scanned document whose lowercased field contains the
\* trimmed, lowercased query scores exactly 1.0: when minScore <= 1 and fewer
\* than topK documents precede it in the ranking (those read before it that
\* contain the query too), it is returned at that rank with score 1.0.
C18_SubstringScoresOne ==
  (ScanPayloadReturned /\ trace.queries = 1 /\ resp.minScore <= FloatUnit) =>
    \A j \in 1..Len(Scanned) :
      LET before == Cardinality({k \in 1..(j - 1) : QueryInField(Scanned[k])}) IN
      (QueryInField(Scanned[j]) /\ before < resp.topK) =>
        /\ Len(resp.results) > before
        /\ resp.results[before + 1].doc = Scanned[j]
        /\ resp.results[before + 1].score = 10000

\* C18 witness: the second result of a scan is a document whose field is
\* longer than the query it contains, read after documents that do not
\* contain it.
C18_Witness ==
  /\ ScanPayloadReturned /\ trace.queries = 1
  /\ Len(resp.results) = 3
  /\ resp.results[2].score = 10000
  /\ Len(resp.results[2].fieldValue) > Len(Strip(resp.query))
  /\ resp.results[3].score < 10000
  /\ ~QueryInField(Scanned[1])

ListPayloadReturned ==
  Answered /\ req.tool = "list_all_courses_mcp" /\ "results" \in DOMAIN resp

C19_ExactlyCapIsTruncated ==
  /\ ListPayloadReturned
  /\ Len(trace.yield.docs) = ListCap
  /\ resp.truncated

\* the container held one document fewer than the cap
C19_BelowCapIsComplete ==
  /\ ListPayloadReturned
  /\ Len(trace.yield.docs) = ListCap - 1
  /\ resp.count = ListCap - 1
  /\ ~resp.truncated

CompanyPayloadReturned ==
  /\ Answered /\ req.tool = "get_users_by_company_mcp"
  /\ trace.queries = 1 /\ "results" \in DOMAIN resp

\* the topK of the request: the number supplied, 200 when none is
RequestedTopK ==
  LET v == Get(parse_args(req.context), "topK") IN
  IF v.t = "none" THEN 200 ELSE PyInt(v).n

\* the first min(k, number yielded) documents of the store's answer
FirstOfYield(k) == SubSeq(trace.yield.docs, 1, Min(k, Len(trace.yield.docs)))

\* C20: get-by-company returns the first min(topK, number of matching users)
\* documents of the store's ordered answer, in that order, topK being 200
\* when absent; five matching users and topK = 2 give exactly two.
C20_FirstTopKOfCompany ==
  CompanyPayloadReturned =>
    /\ resp.results = FirstOfYield(RequestedTopK)
    /\ resp.count = Len(resp.results)

\* C20 for a topK that is absent or at least 1
C20_FirstTopKOfCompanyPositive ==
  (CompanyPayloadReturned /\ RequestedTopK >= 1) =>
    /\ resp.results = FirstOfYield(RequestedTopK)
    /\ resp.count = Len(resp.results)
    /\ trace.sent = Sent("BY_COMPANY_ORDER_BY_USERNAME", <<resp.companyName>>)

\* five matching users and topK = 2: exactly the first two are returned
C20_TwoOfFive ==
  /\ CompanyPayloadReturned
  /\ Len(trace.yield.docs) = 5 /\ RequestedTopK = 2
  /\ resp.results = SubSeq(trace.yield.docs, 1, 2)

\* topK absent and 201 matching users: the first 200 are returned
C20_DefaultTwoHundred ==
  /\ CompanyPayloadReturned
  /\ Get(parse_args(req.context), "topK").t = "none"
  /\ Len(trace.yield.docs) = 201
  /\ resp.count = 200

\* the pieces of s between the characters of seps, in order, empty ones kept
RECURSIVE PiecesBetween(_, _, _)
PiecesBetween(s, seps, cur) ==
  IF s = <<>> THEN <<cur>>
  ELSE IF Head(s) \in seps THEN <<cur>> \o PiecesBetween(Tail(s), seps, <<>>)
  ELSE PiecesBetween(Tail(s), seps, Append(cur, Head(s)))

\* the ids a userIds value stands for: its pieces between commas and newlines,
\* each trimmed, the empty ones dropped, in order; none if it is not a string
ExpectedIds(v) ==
  IF ~IsStr(v) THEN <<>>
  ELSE LET pieces == PiecesBetween(v.s, {COMMA, NL}, <<>>)
       IN SelectSeq([i \in 1..Len(pieces) |-> Strip(pieces[i])], LAMBDA p : Len(p) > 0)

IdsAnswered == Answered /\ req.tool = "get_users_by_ids_mcp"

GivenUserIds == Get(parse_args(req.context), "userIds")

C21_OnlySeparatorsGetHint ==
  /\ IdsAnswered
  /\ GivenUserIds = Str(<<COMMA, SP, NL>>)
  /\ "usageExample" \in DOMAIN resp
  /\ trace.init = "skipped"

\* the map inside a payload map: under "arguments" if that entry is a map,
\* else under "mcpToolArgs" if that entry is a map, else the map itself
InnerMap(d) ==
  IF "arguments" \in DOMAIN d /\ d["arguments"].t = "dict" THEN d["arguments"].d
  ELSE IF "mcpToolArgs" \in DOMAIN d /\ d["mcpToolArgs"].t = "dict" THEN d["mcpToolArgs"].d
  ELSE d

\* the payload maps whose compact JSON text is txt
MapsEncodedBy(txt) == {d \in PayloadMaps : JsonText(DictV(d)) = txt}

\* the arguments the claim assigns to a payload: the inner map of a native
\* map or of the map a string encodes, {raw: trimmed string} for every other
\* non-empty string, no argument otherwise
ClaimedArgs(c) ==
  CASE c.t = "dict" -> InnerMap(c.d)
    [] c.t = "str" /\ Strip(c.s) # <<>> ->
         IF MapsEncodedBy(Strip(c.s)) # {}
         THEN InnerMap(CHOOSE d \in MapsEncodedBy(Strip(c.s)) : TRUE)
         ELSE [k \in {"raw"} |-> Str(Strip(c.s))]
    [] OTHER -> EmptyDict

\* a text that is a JSON number or a JSON string literal
JsonScalarText(t) ==
  \/ /\ t # <<>> /\ \A i \in 1..Len(t) : t[i] \in Digits
     /\ (Len(t) > 1 => t[1] # "0")
  \/ /\ Len(t) >= 2 /\ t[1] = QUOTE /\ t[Len(t)] = QUOTE
     /\ \A i \in 2..(Len(t) - 1) : t[i] \notin {QUOTE, TAB, NL}

\* the search term a predicate search takes from arguments a
TermOf(a) == PyOr(PyOr(Get(a, "searchTerm"), Get(a, "raw")), Str(<<>>))

PredicateAnswered == Answered /\ req.tool \in PredicateTools

\* C22: parse_args uses a native map as is, decodes a JSON-encoded map to that
\* map, unwraps a map under "arguments" (first) or "mcpToolArgs", and turns
\* every other non-empty string into {raw: trimmed string}, which the
\* predicate search uses as its search term.
C22_PayloadFormatsNormalised ==
  PredicateAnswered =>
    /\ parse_args(req.context) = ClaimedArgs(req.context)
    /\ (IsStr(TermOf(ClaimedArgs(req.context))) /\ Strip(TermOf(ClaimedArgs(req.context)).s) # <<>>)
         => /\ ErrorKind(resp) # "ValidationError"
            /\ "results" \in DOMAIN resp => resp.query = Strip(TermOf(ClaimedArgs(req.context)).s)

\* C22 as the code has it: the same, except that a string that is a JSON
\* number or a JSON string literal yields no argument at all (and the search
\* then reports a missing searchTerm).
C22_PayloadFormatsNormalisedButJsonScalars ==
  PredicateAnswered =>
    IF req.context.t = "str" /\ JsonScalarText(Strip(req.context.s))
    THEN /\ parse_args(req.context) = EmptyDict
         /\ ErrorKind(resp) = "ValidationError"
    ELSE /\ parse_args(req.context) = ClaimedArgs(req.context)
         /\ (IsStr(TermOf(ClaimedArgs(req.context))) /\ Strip(TermOf(ClaimedArgs(req.context)).s) # <<>>)
              => /\ ErrorKind(resp) # "ValidationError"
                 /\ "results" \in DOMAIN resp => resp.query = Strip(TermOf(ClaimedArgs(req.context)).s)

\* C22, reached: a JSON text with both wrapper keys was searched with the
\* term under "arguments".
C22_EncodedArgumentsFirst ==
  /\ PredicateAnswered /\ "results" \in DOMAIN resp
  /\ req.context.t = "str"
  /\ {"arguments", "mcpToolArgs"} \subseteq UNION {DOMAIN d : d \in MapsEncodedBy(req.context.s)}
  /\ resp.query = <<"a">>

\* C22, reached: a JSON text cut before its closing brace was searched as is.
C22_BrokenJsonIsRaw ==
  /\ PredicateAnswered /\ "results" \in DOMAIN resp
  /\ req.context.t = "str"
  /\ resp.query = req.context.s
  /\ Head(resp.query) = LBRACE

\* C23: no tool invocation, whatever it returns, changes the contents of any
\* container of the store, and the only handles a step changes are those of
\* the module whose tool was invoked in that step.
C23_ToolsOnlyReadTheStore ==
  [][ /\ store' = store
      /\ \A m \in Modules :
           (client'[m] # client[m] \/ container'[m] # container[m])
             => (resp' # Idle /\ req'.mod = m) ]_vars

\* C23 witness: an invocation built its module's handle, read a document of
\* the store through it, and the store holds what it held at the start.
C23_Witness ==
  /\ Answered
  /\ trace.init = "ok"
  /\ trace.queries = 1
  /\ trace.consumed = 1
  /\ trace.yield.docs[1] \in store[ContainerOf(req.mod)]
  /\ store = InitialStore

\* C23, reached: a query that failed left the store as it was.
C23_FailedQueryLeavesStore ==
  /\ Answered /\ IsError(resp)
  /\ trace.queries = 1
  /\ store = InitialStore

\* the trimmed query of a search request
TrimmedQuery == Strip(TermOf(parse_args(req.context)).s)

\* round(0.7 * 1.0 + 0.3 * min(lenq / lenv, 1.0), 4) in units of 1/10000
ClaimedScore(lenq, lenv) ==
  LET num == 7 * lenv + 3 * (IF lenq <= lenv THEN lenq ELSE lenv)
      den == 10 * lenv
  IN  CHOOSE n \in 7000..10000 : 2 * den * n <= 20000 * num + den /\ 20000 * num + den < 2 * den * (n + 1)

\* C24: every result of the predicate search has a non-empty field value v
\* and score = round(0.7 * 1.0 + 0.3 * min(len(query) / len(v), 1.0), 4) for
\* the trimmed query; the query "Python U5165 U9580" returns the course named
\* "Python U5165 U9580 U8B1B U5EA7" with the score that formula gives, 0.9455.
C24_PredicateScoreFormula ==
  (PredicateAnswered /\ "results" \in DOMAIN resp) =>
    /\ \A i \in 1..Len(resp.results) :
         /\ Len(resp.results[i].fieldValue) > 0
         /\ resp.results[i].score
              = ClaimedScore(Len(TrimmedQuery), Len(resp.results[i].fieldValue))
    /\ ( /\ resp.field = "courseName"
         /\ TrimmedQuery = <<"P", "y", "t", "h", "o", "n", SP, "U5165", "U9580">>
         /\ resp.topK = 5
         /\ \E j \in 1..Len(trace.yield.docs) : trace.yield.docs[j] = PythonCourse )
       => \E i \in 1..Len(resp.results) :
            /\ resp.results[i].doc = PythonCourse
            /\ resp.results[i].score = 9455

\* C24 witness: the scenario search returned the scenario course.
C24_Witness ==
  /\ PredicateAnswered /\ "results" \in DOMAIN resp
  /\ resp.field = "courseName"
  /\ resp.query = <<"P", "y", "t", "h", "o", "n", SP, "U5165", "U9580">>
  /\ Len(resp.results) = 1
  /\ resp.results[1].doc = PythonCourse
  /\ resp.results[1].score = 9455

\* the topK a predicate search that queried the store runs with
SearchedTopK == SearchTopK(parse_args(req.context)).n

PredicateQueried == PredicateAnswered /\ trace.queries = 1

\* the search took exactly the first min(cap, yielded) documents, unless the
\* iterator raised before, and its results are among the first cap documents
LookAheadBoundedBy(cap) ==
  /\ trace.consumed <= cap
  /\ trace.consumed <= Len(trace.yield.docs)
  /\ trace.ended = "break" <=> Len(trace.yield.docs) >= cap
  /\ trace.ended = "break" => trace.consumed = cap
  /\ trace.ended # "break" => trace.consumed = Len(trace.yield.docs)
  /\ "results" \in DOMAIN resp =>
       \A i \in 1..Len(resp.results) :
         \E j \in 1..trace.consumed :
           j <= cap /\ resp.results[i].doc = trace.yield.docs[j]

\* C25: a predicate search reads the store's answer until it holds topK * 3
\* documents or the answer is exhausted, never more than topK * 3, and its
\* results are drawn from those first documents only.
C25_LookAheadIsThreeTimesTopK ==
  PredicateQueried => LookAheadBoundedBy(3 * SearchedTopK)

\* C25 for a topK of at least 1 (absent topK is 5).
C25_LookAheadIsThreeTimesPositiveTopK ==
  (PredicateQueried /\ SearchedTopK >= 1) => LookAheadBoundedBy(3 * SearchedTopK)

\* C25, reached: with topK = 1 the store offered five documents and the
\* search took three.
C25_ThreeOfFive ==
  /\ PredicateQueried /\ "results" \in DOMAIN resp
  /\ SearchedTopK = 1
  /\ Len(trace.yield.docs) = 5
  /\ trace.consumed = 3
  /\ trace.ended = "break"

\* the position at which a document was fetched (a yield holds it once)
FetchedAt(d) == CHOOSE j \in 1..Len(trace.yield.docs) : trace.yield.docs[j] = d

\* the result the search computes for the j-th fetched document, or Idle if
\* it is no candidate
CandidateAt(j) ==
  LET d == trace.yield.docs[j] IN
  IF req.tool \in PredicateTools
  THEN IF SearchKeeps(resp.field, resp.tokens, d)
       THEN SearchResult(resp.field, resp.query, resp.tokens, d) ELSE Idle
  ELSE IF FuzzyKeeps(resp.field, Lower(Strip(resp.query)), resp.minScore, d)
       THEN FuzzyResult(resp.field, Lower(Strip(resp.query)), d) ELSE Idle

SearchRanked == SearchPayloadReturned /\ trace.queries = 1

\* C26: results of equal score stand in the order in which their documents
\* were fetched, and a candidate that the truncation dropped was fetched
\* after every returned result of the same score (either strategy).
C26_TiesKeepFetchOrder ==
  SearchRanked =>
    /\ \A i \in 1..Len(resp.results), j \in 1..Len(resp.results) :
         (i < j /\ resp.results[i].score = resp.results[j].score)
           => FetchedAt(resp.results[i].doc) < FetchedAt(resp.results[j].doc)
    /\ \A j \in 1..trace.consumed :
         (CandidateAt(j) # Idle /\ \A i \in 1..Len(resp.results) : resp.results[i] # CandidateAt(j))
           => \A i \in 1..Len(resp.results) :
                resp.results[i].score = CandidateAt(j).score
                  => FetchedAt(resp.results[i].doc) < j

\* C26 witness: two results of equal score were returned and a third
\* candidate of that score, fetched later, was cut off by topK = 2.
C26_Witness ==
  /\ SearchRanked
  /\ resp.topK = 2
  /\ Len(resp.results) = 2
  /\ resp.results[1].score = resp.results[2].score
  /\ \E j \in 1..trace.consumed :
       /\ CandidateAt(j) # Idle
       /\ CandidateAt(j).score = resp.results[2].score
       /\ j > FetchedAt(resp.results[2].doc)

\* C26, reached by the scan strategy as well.
C26_ScanTie ==
  /\ SearchRanked /\ req.tool \in ScanTools
  /\ Len(resp.results) >= 2
  /\ resp.results[1].score = resp.results[2].score

\* C27: every search result (either strategy) has as snippet the first 120
\* characters of its field value, followed by "..." exactly when the value is
\* longer than 120 characters; so the snippet has at most 123 characters and
\* is the field value itself when that has at most 120.
C27_SnippetIsFirst120PlusEllipsis ==
  SearchPayloadReturned =>
    \A i \in 1..Len(resp.results) :
      LET v == resp.results[i].fieldValue
          sn == resp.results[i].snippet
      IN /\ Len(sn) <= 123
         /\ Len(v) <= 120 => sn = v
         /\ Len(v) > 120 =>
              /\ Len(sn) = 123
              /\ SubSeq(sn, 1, 120) = SubSeq(v, 1, 120)
              /\ SubSeq(sn, 121, 123) = <<".", ".", ".">>

\* C27 witness: one response holds a value of exactly 120 characters returned
\* as it is and a value of 124 characters cut to 120 plus "...".
C27_Witness ==
  /\ SearchPayloadReturned
  /\ \E i \in 1..Len(resp.results) :
       /\ Len(resp.results[i].fieldValue) = 120
       /\ resp.results[i].snippet = resp.results[i].fieldValue
  /\ \E i \in 1..Len(resp.results) :
       /\ Len(resp.results[i].fieldValue) = 124
       /\ Len(resp.results[i].snippet) = 123

\* C27, reached by the scan strategy as well.
C27_ScanCutsLongValue ==
  /\ SearchPayloadReturned /\ req.tool \in ScanTools
  /\ \E i \in 1..Len(resp.results) :
       /\ Len(resp.results[i].fieldValue) = 121
       /\ Len(resp.results[i].snippet) = 123

\* C28: however the statements of concurrent first invocations interleave,
\* at most one client is ever constructed in the module, and a handle on
\* which a query was issued is the handle the module still holds.
C28_ConcurrentInitBuildsOneHandle ==
  /\ client[ConcurrentModule] <= 1
  /\ \A t \in Threads : threads[t].on # 0 => threads[t].on = container[ConcurrentModule]

\* C28, first half alone: at most one client is constructed.
C28_AtMostOneClientBuilt == client[ConcurrentModule] <= 1

\* C28, second half alone: no query was issued on a handle since replaced.
C28_NoQueryOnReplacedHandle ==
  \A t \in Threads : threads[t].on # 0 => threads[t].on = container[ConcurrentModule]

\* the invariant that does survive the interleaving: a container handle
\* implies a client, and the container belongs to a client that was built
C28_ContainerImpliesClient ==
  /\ container[ConcurrentModule] # 0 => client[ConcurrentModule] # 0
  /\ container[ConcurrentModule] <= client[ConcurrentModule]

\* reached: an invocation was told DependencyNotReady while another thread's
\* initialisation was under way and then succeeded
C28_NotReadyDuringOtherInit ==
  /\ \E t \in Threads : threads[t].out = "DependencyNotReady" /\ threads[t].env = "-"
  /\ container[ConcurrentModule] # 0

\* a module holds a client and no container: the acquisition of the
\* database / container handle failed after the client was constructed
HalfInitialised(m) == client[m] # 0 /\ container[m] = 0

\* C29: in every state a container handle implies a client; and once a
\* module holds a client without a container it stays so for ever, every
\* later store-backed call of a functions/mcpTriggers module in that state
\* returning DependencyNotReady without an initialisation attempt or a query
\* (invocations one after the other).
C29_HalfInitialisedIsAbsorbing ==
  /\ [](\A m \in Modules : container[m] # 0 => client[m] # 0)
  /\ [][ \A m \in Modules :
           HalfInitialised(m) =>
             /\ client'[m] = client[m]
             /\ container'[m] = 0
             /\ (resp' # Idle /\ req'.mod = m /\ m \in McpModules /\ trace'.init # "skipped")
                  => /\ ErrorKind(resp') = "DependencyNotReady"
                     /\ trace'.init = "cached"
                     /\ trace'.queries = 0 ]_vars

\* C29 witness: a store-backed call found its module with a client and no
\* container, was answered DependencyNotReady and left the module as it was.
C29_Witness ==
  /\ StoreBackedCall /\ req.mod \in McpModules
  /\ HalfInitialised(req.mod)
  /\ trace.clientBefore = client[req.mod]
  /\ trace.containerBefore = 0
  /\ trace.init = "cached"
  /\ trace.queries = 0
  /\ ErrorKind(resp) = "DependencyNotReady"

\* the documents of the users container whose id is one of the requested ids
MatchingUsers ==
  {d \in store["users"] : \E i \in 1..Len(RequestedIds) : d.id = Str(RequestedIds[i])}

\* the store answered the get-by-ids query in full: its iterator offers
\* exactly the matching documents, in some order, and then ends
FullAnswer ==
  /\ trace.queries = 1
  /\ trace.yield.ends = "none"
  /\ {trace.yield.docs[j] : j \in 1..Len(trace.yield.docs)} = MatchingUsers

\* every requested id that exists in the store is returned and not missing
Lossless ==
  \A i \in 1..Len(RequestedIds) :
    (\E d \in store["users"] : d.id = Str(RequestedIds[i]))
      => /\ Str(RequestedIds[i]) \in ReturnedIds
         /\ \A k \in 1..Len(resp.missingIds) : resp.missingIds[k] # RequestedIds[i]

\* C30: get-by-ids stops reading once it holds as many documents as ids were
\* requested, and whatever the store holds and in whatever order it answers
\* (ids repeated in the request, an id present in more than one partition),
\* every requested id that exists in the store is in results and not in
\* missingIds.
C30_EarlyStopIsLossless ==
  (IdsResponse /\ FullAnswer) =>
    /\ trace.consumed = Min(Len(RequestedIds), Len(trace.yield.docs))
    /\ Lossless

\* no two matching documents share an id
IdsUniqueAcrossPartitions ==
  \A d \in MatchingUsers, e \in MatchingUsers : d.id = e.id => d = e

\* C30 where each requested id occurs in one partition only.
C30_EarlyStopIsLosslessForUniqueIds ==
  (IdsResponse /\ FullAnswer /\ IdsUniqueAcrossPartitions) =>
    /\ trace.consumed = Min(Len(RequestedIds), Len(trace.yield.docs))
    /\ Lossless

\* C30, reached: an id requested twice and found once is not missing.
C30_RepeatedIdFound ==
  /\ IdsResponse /\ FullAnswer
  /\ RequestedIds = << <<"u", "3">>, <<"u", "3">> >>
  /\ resp.count = 1
  /\ resp.missingIds = <<>>

=============================================================================
